---------------------------- MODULE Spec2Model ----------------------------
(***************************************************************************)
(* Model of the Matrix_2 numeric library: the generic Matrix engine        *)
(* (src/inc/Matrix.h), the Vector/Matrix storage ownership                 *)
(* (src/inc/Vector.h, src/inc/Matrix.h) and the polynomial engine          *)
(* (src/src/Poly.cpp) over the rectangular complex type                    *)
(* (src/src/Complex_C.cpp).                                                *)
(*                                                                         *)
(* Conventions                                                             *)
(*  - A call that can throw returns a record [exc, val]: exc = "none" and  *)
(*    val the returned value, or exc = the name of the exception thrown.   *)
(*  - Matrix<double> elements are integers (exactly representable          *)
(*    doubles); the one division of the engine (operator/) keeps its       *)
(*    operands as a fraction record.                                       *)
(***************************************************************************)
EXTENDS Integers, Sequences, FiniteSets, TLC

VARIABLES
    mat,        \* Matrix engine: the receiver matrix (m_rows, m_cols, m_data)
    matOp,      \* Matrix engine: the member function last called on mat
    matRes,     \* Matrix engine: what that call returned or threw
    factorList, \* CompressFactors: the argument, a sequence of factors
    polyOp,     \* CompressFactors: "none" before the call, then its name
    polyRes,    \* CompressFactors: the coefficient vector returned
    compressedPoly, \* FactorizePoly: the argument, a coefficient vector
    pc,             \* FactorizePoly: where the call is
    maxRank,        \* FactorizePoly: local maxRank
    nextValues,     \* FactorizePoly: local nextValues
    currentValues,  \* FactorizePoly: local currentValues
    iter_count,     \* FactorizePoly: local iter_count
    all_converged,  \* FactorizePoly: local all_converged
    dkRes,          \* FactorizePoly: the factors returned or the exception
    objs,           \* object store: the Vector and Matrix objects in scope
    heap,           \* object store: the arrays allocated with new T[n]
    vec,            \* Vector engine: the receiver vector (m_length, vec_data)
    vecOp,          \* Vector engine: the member function last called on vec
    vecRes,         \* Vector engine: what that call returned or threw
    arg             \* the arguments of the call, a record tagged by kind

matVars == <<mat, matOp, matRes>>

polyVars == <<factorList, polyOp, polyRes>>

dkVars == <<compressedPoly, pc, maxRank, nextValues, currentValues,
            iter_count, all_converged, dkRes>>

heapVars == <<objs, heap>>

vecVars == <<vec, vecOp, vecRes>>

vars == <<mat, matOp, matRes, factorList, polyOp, polyRes, compressedPoly, pc,
          maxRank, nextValues, currentValues, iter_count, all_converged, dkRes,
          objs, heap, vec, vecOp, vecRes, arg>>

-----------------------------------------------------------------------------
(* Bounds of the model *)

\* largest side length of the matrices drawn as inputs
MaxDim == 3

\* matrix elements are drawn from 0..MaxElem
MaxElem == 1

ElemVals == 0..MaxElem

\* at most this many elements of an input matrix (the first ones, row-major)
\* range over ElemVals; the elements after them are fixed nonzero values
MaxFreeCells == 5

-----------------------------------------------------------------------------
(* Calls that may throw *)

Ret(v) == [exc |-> "none", val |-> v]

Throw(e) == [exc |-> e, val |-> "none"]

Threw(r) == r.exc # "none"

\* v is evaluated once and handed to F
Strict(v, F(_)) == CHOOSE y \in {F(x) : x \in {v}} : TRUE

\* u and v are evaluated once each and handed to F
Strict2(u, v, F(_, _)) == CHOOSE y \in {F(a, b) : a \in {u}, b \in {v}} : TRUE

\* the call r followed by F on what it returned; an exception of r propagates
Bind(r, F(_)) ==
    CHOOSE y \in {IF Threw(x) THEN x ELSE F(x.val) : x \in {r}} : TRUE

-----------------------------------------------------------------------------
(* Matrix<T>, src/inc/Matrix.h *)

\* storage of new T[n] before anything is written to it
UNINIT == "uninit"

\* Matrix(rows, cols) that tests rows only
Matrix_ctor_rowsonly(rows, cols) ==
    IF rows < 1
    THEN Throw("invalid_argument")
    ELSE Ret([m_rows |-> rows, m_cols |-> cols,
              m_data |-> [k \in 1..(rows * cols) |-> UNINIT]])

\* Matrix(rows, cols)
Matrix_ctor(rows, cols) ==
    IF rows < 1 \/ cols < 1
    THEN Throw("invalid_argument")
    ELSE Ret([m_rows |-> rows, m_cols |-> cols,
              m_data |-> [k \in 1..(rows * cols) |-> UNINIT]])

check_bounds(m, row, col) == (row < m.m_rows) /\ (col < m.m_cols)

\* index into m_data; the model's sequences are 1-based, hence the + 1
trans_coord(m, row, col) ==
    IF ~check_bounds(m, row, col)
    THEN Throw("invalid_argument")
    ELSE Ret(row * m.m_cols + col + 1)

get(m, row, col) ==
    LET idx == trans_coord(m, row, col)
    IN  IF Threw(idx) THEN idx ELSE Ret(m.m_data[idx.val])

set(m, row, col, v) ==
    LET idx == trans_coord(m, row, col)
    IN  IF Threw(idx) THEN idx
        ELSE Ret([m EXCEPT !.m_data[idx.val] = v])

\* Matrix(matData): the initializer-list constructor, rowsData a sequence of rows
Matrix_list(rowsData) ==
    IF Len(rowsData) = 0
    THEN Throw("invalid_argument")
    ELSE IF \E r \in 1..Len(rowsData) :
                Len(rowsData[r]) = 0 \/ Len(rowsData[r]) # Len(rowsData[1])
    THEN Throw("invalid_argument")
    ELSE LET colLen == Len(rowsData[1])
         IN  Ret([m_rows |-> Len(rowsData), m_cols |-> colLen,
                  m_data |-> [k \in 1..(Len(rowsData) * colLen) |->
                                rowsData[((k - 1) \div colLen) + 1]
                                        [((k - 1) % colLen) + 1]]])

RECURSIVE transpose_loop(_, _, _)
\* the two nested loops of transpose(), k = i * m_cols + j
transpose_loop(m, k, transposeMat) ==
    IF k >= m.m_rows * m.m_cols
    THEN Ret(transposeMat)
    ELSE LET i == k \div m.m_cols
             j == k % m.m_cols
         IN  Bind(get(m, i, j), LAMBDA g :
             Bind(set(transposeMat, j, i, g), LAMBDA s :
             transpose_loop(m, k + 1, s)))

\* transpose() into a matrix of the dimensions of the original
transpose_samedims(m) ==
    Bind(Matrix_ctor(m.m_rows, m.m_cols), LAMBDA transposeMat :
    transpose_loop(m, 0, transposeMat))

\* transpose()
transpose(m) ==
    Bind(Matrix_ctor(m.m_cols, m.m_rows), LAMBDA transposeMat :
    transpose_loop(m, 0, transposeMat))

RECURSIVE createSubMatrix_cols(_, _, _, _, _, _, _)
\* inner loop of createSubMatrix over j, with its colSkip
createSubMatrix_cols(m, col, i, rowSkip, j, colSkip, outMat) ==
    IF j >= m.m_cols
    THEN Ret(outMat)
    ELSE IF colSkip = 0 /\ j = col
    THEN createSubMatrix_cols(m, col, i, rowSkip, j + 1, 1, outMat)
    ELSE Bind(get(m, i, j), LAMBDA g :
         Bind(set(outMat, i - rowSkip, j - colSkip, g), LAMBDA s :
         createSubMatrix_cols(m, col, i, rowSkip, j + 1, colSkip, s)))

RECURSIVE createSubMatrix_rows(_, _, _, _, _, _)
\* outer loop of createSubMatrix over i, with its rowSkip
createSubMatrix_rows(m, row, col, i, rowSkip, outMat) ==
    IF i >= m.m_rows
    THEN Ret(outMat)
    ELSE IF rowSkip = 0 /\ i = row
    THEN createSubMatrix_rows(m, row, col, i + 1, 1, outMat)
    ELSE Bind(createSubMatrix_cols(m, col, i, rowSkip, 0, 0, outMat),
              LAMBDA r :
         createSubMatrix_rows(m, row, col, i + 1, rowSkip, r))

\* createSubMatrix with the excluded row and column exchanged
createSubMatrix_swapped(m, row, col) ==
    Bind(Matrix_ctor(m.m_rows - 1, m.m_cols - 1), LAMBDA outMat :
    createSubMatrix_rows(m, col, row, 0, 0, outMat))

createSubMatrix(m, row, col) ==
    Bind(Matrix_ctor(m.m_rows - 1, m.m_cols - 1), LAMBDA outMat :
    createSubMatrix_rows(m, row, col, 0, 0, outMat))

\* number of elements of row i that compare equal to (T) 0
zeroCount(m, i) ==
    Cardinality({j \in 0..(m.m_cols - 1) : get(m, i, j).val = 0})

RECURSIVE find_zeros_row_loop(_, _, _, _)
find_zeros_row_loop(m, i, highestZerosCount, zerosRow) ==
    IF i >= m.m_rows
    THEN zerosRow
    ELSE Strict(zeroCount(m, i), LAMBDA zc :
         IF zc > highestZerosCount
         THEN find_zeros_row_loop(m, i + 1, zc, i)
         ELSE find_zeros_row_loop(m, i + 1, highestZerosCount, zerosRow))

find_zeros_row(m) == find_zeros_row_loop(m, 0, 0, 0)

\* pow(-1, k) for an integer k >= 0
pow_neg1(k) == IF k % 2 = 0 THEN 1 ELSE -1

RECURSIVE determinant(_)

minor(m, i, j) ==
    Bind(createSubMatrix(m, i, j), LAMBDA sub : determinant(sub))

\* the cofactor without its sign
cofactor_nosign(m, i, j) == minor(m, i, j)

cofactor(m, i, j) ==
    Bind(minor(m, i, j), LAMBDA mn : Ret(mn * pow_neg1(i + j)))

RECURSIVE determinant_loop(_, _, _, _)

\* the expansion loop stopping one column early
determinant_loop_short(m, workingRow, j, det) ==
    IF j + 1 >= m.m_cols
    THEN Ret(det)
    ELSE IF get(m, workingRow, j).val # 0
    THEN Bind(cofactor(m, workingRow, j), LAMBDA c :
         determinant_loop(m, workingRow, j + 1,
                          det + get(m, workingRow, j).val * c))
    ELSE determinant_loop(m, workingRow, j + 1, det)

\* the expansion loop of determinant() along workingRow
determinant_loop(m, workingRow, j, det) ==
    IF j >= m.m_cols
    THEN Ret(det)
    ELSE IF get(m, workingRow, j).val # 0
    THEN Bind(cofactor(m, workingRow, j), LAMBDA c :
         Strict(det + get(m, workingRow, j).val * c, LAMBDA res :
         determinant_loop(m, workingRow, j + 1, res)))
    ELSE determinant_loop(m, workingRow, j + 1, det)

determinant(m) ==
    IF m.m_cols # m.m_rows
    THEN Throw("invalid_argument")
    ELSE IF m.m_cols = 2
    THEN Ret(get(m, 0, 0).val * get(m, 1, 1).val
             - get(m, 1, 0).val * get(m, 0, 1).val)
    ELSE IF m.m_cols = 1
    THEN Ret(get(m, 0, 0).val)
    ELSE Strict(find_zeros_row(m), LAMBDA workingRow :
         determinant_loop(m, workingRow, 0, 0))

RECURSIVE adjoint_loop(_, _, _)
\* the two nested loops of adjoint(), k = i * m_cols + j
adjoint_loop(m, k, outMat) ==
    IF k >= m.m_rows * m.m_cols
    THEN Ret(outMat)
    ELSE LET i == k \div m.m_cols
             j == k % m.m_cols
         IN  Bind(cofactor(m, i, j), LAMBDA c :
             Bind(set(outMat, i, j, c), LAMBDA s :
             adjoint_loop(m, k + 1, s)))

adjoint(m) ==
    Bind(Matrix_ctor(m.m_rows, m.m_cols), LAMBDA outMat :
    Bind(adjoint_loop(m, 0, outMat), LAMBDA filled :
    transpose(filled)))

\* T / T on doubles: the quotient a / b, kept as the pair of its operands
DivT(a, b) == [num |-> a, den |-> b]

\* operator/(T const& num)
MatDiv(m, num) ==
    Bind(Matrix_ctor(m.m_rows, m.m_cols), LAMBDA outMat :
    Ret([outMat EXCEPT !.m_data =
            [k \in 1..(m.m_rows * m.m_cols) |-> DivT(m.m_data[k], num)]]))

\* operator*(double const& num)
MatScale(m, num) ==
    Bind(Matrix_ctor(m.m_rows, m.m_cols), LAMBDA outMat :
    Ret([outMat EXCEPT !.m_data =
            [k \in 1..(m.m_rows * m.m_cols) |-> m.m_data[k] * num]]))

inverse(m) ==
    Bind(determinant(m), LAMBDA det :
    IF det = 0
    THEN Throw("invalid_argument")
    ELSE Bind(adjoint(m), LAMBDA adj : MatDiv(adj, det)))

RECURSIVE MatMod_sum(_, _, _, _, _, _)
\* innermost loop of operator%: sum over idx of get(i, idx) * mat.get(idx, j)
MatMod_sum(m, other, i, j, idx, sum) ==
    IF idx >= m.m_cols
    THEN Ret(sum)
    ELSE Bind(get(m, i, idx), LAMBDA a :
         Bind(get(other, idx, j), LAMBDA b :
         Strict(sum + a * b, LAMBDA res :
         MatMod_sum(m, other, i, j, idx + 1, res))))

RECURSIVE MatMod_loop(_, _, _, _)
\* the two outer loops of operator%, k = i * outMat.m_cols + j
MatMod_loop(m, other, k, outMat) ==
    IF k >= outMat.m_rows * outMat.m_cols
    THEN Ret(outMat)
    ELSE LET i == k \div outMat.m_cols
             j == k % outMat.m_cols
         IN  Bind(MatMod_sum(m, other, i, j, 0, 0), LAMBDA sum :
             Bind(set(outMat, i, j, sum), LAMBDA s :
             MatMod_loop(m, other, k + 1, s)))

\* operator% that compares the row counts of its operands
MatMod_rows(m, other) ==
    IF m.m_rows # other.m_rows
    THEN Throw("invalid_argument")
    ELSE Bind(Matrix_ctor(m.m_rows, other.m_cols), LAMBDA outMat :
         MatMod_loop(m, other, 0, outMat))

\* operator%(Matrix<T> const& mat)
MatMod(m, other) ==
    IF m.m_cols # other.m_rows
    THEN Throw("invalid_argument")
    ELSE Bind(Matrix_ctor(m.m_rows, other.m_cols), LAMBDA outMat :
         MatMod_loop(m, other, 0, outMat))

\* identity(len) with every element set to (T) 1
identity_allones(len) ==
    Bind(Matrix_ctor(len, len), LAMBDA id :
    Ret([id EXCEPT !.m_data = [k \in 1..(len * len) |-> 1]]))

\* static identity(len)
identity(len) ==
    Bind(Matrix_ctor(len, len), LAMBDA id :
    Ret([id EXCEPT !.m_data =
            [k \in 1..(len * len) |->
                IF (k - 1) \div len = (k - 1) % len THEN 1 ELSE 0]]))

\* operator==(Matrix<T> const& mat)
MatEq(m, other) ==
    IF other.m_cols # m.m_cols \/ other.m_rows # m.m_rows
    THEN FALSE
    ELSE \A k \in 1..(m.m_cols * m.m_rows) : m.m_data[k] = other.m_data[k]

\* the element-wise loop of operator+, operator- and operator*:
\* outMat.get_data()[i] = Op(m_data[i], mat.get_data()[i])
MatElementwise(m, other, Op(_, _)) ==
    IF other.m_cols # m.m_cols \/ other.m_rows # m.m_rows
    THEN Throw("invalid_argument")
    ELSE Bind(Matrix_ctor(m.m_rows, m.m_cols), LAMBDA outMat :
         Ret([outMat EXCEPT !.m_data =
                [k \in 1..(m.m_cols * m.m_rows) |->
                    Op(m.m_data[k], other.m_data[k])]]))

\* operator+ that tests the column counts only
MatAdd_colsonly(m, other) ==
    IF other.m_cols # m.m_cols
    THEN Throw("invalid_argument")
    ELSE Bind(Matrix_ctor(m.m_rows, m.m_cols), LAMBDA outMat :
         Ret([outMat EXCEPT !.m_data =
                [k \in 1..(m.m_cols * m.m_rows) |->
                    IF k <= Len(other.m_data)
                    THEN m.m_data[k] + other.m_data[k]
                    ELSE m.m_data[k]]]))

\* operator+(Matrix<T> const& mat)
MatAdd(m, other) == MatElementwise(m, other, LAMBDA a, b : a + b)

\* operator-(Matrix<T> const& mat)
MatSub(m, other) == MatElementwise(m, other, LAMBDA a, b : a - b)

\* operator*(Matrix<T> const& mat), element-wise
MatMul(m, other) == MatElementwise(m, other, LAMBDA a, b : a * b)

\* the outcome of a member function that changes its object in place: the
\* exception thrown, if any, and the object as the call leaves it
Mut(e, m) == [exc |-> e, obj |-> m]

\* set(row, col, val) on the object itself
set_inplace(m, row, col, v) ==
    Strict(set(m, row, col, v), LAMBDA s :
    IF Threw(s) THEN Mut(s.exc, m) ELSE Mut("none", s.val))

RECURSIVE setRow_loop(_, _, _, _)
\* for (i < m_cols) set(row, i, rowData.at(i))
setRow_loop(m, row, rowData, i) ==
    IF i >= m.m_cols THEN Mut("none", m)
    ELSE Strict(set_inplace(m, row, i, rowData[i + 1]), LAMBDA s :
         IF s.exc # "none" THEN s
         ELSE setRow_loop(s.obj, row, rowData, i + 1))

\* setRow that takes data longer than the row and drops the rest
setRow_nolen(m, row, rowData) ==
    IF Len(rowData) < m.m_cols
    THEN Mut("invalid_argument", m)
    ELSE setRow_loop(m, row, rowData, 0)

\* setRow(row, rowData)
setRow(m, row, rowData) ==
    IF Len(rowData) # m.m_cols
    THEN Mut("invalid_argument", m)
    ELSE setRow_loop(m, row, rowData, 0)

RECURSIVE setCol_loop(_, _, _, _)
\* for (i < m_rows) set(i, col, colData.at(i))
setCol_loop(m, col, colData, i) ==
    IF i >= m.m_rows THEN Mut("none", m)
    ELSE Strict(set_inplace(m, i, col, colData[i + 1]), LAMBDA s :
         IF s.exc # "none" THEN s
         ELSE setCol_loop(s.obj, col, colData, i + 1))

\* setCol(col, colData)
setCol(m, col, colData) ==
    IF Len(colData) # m.m_rows
    THEN Mut("invalid_argument", m)
    ELSE setCol_loop(m, col, colData, 0)

RECURSIVE getRow_loop(_, _, _, _)
\* for (i < m_cols) outRow.at(i) = get(row, i)
getRow_loop(m, row, i, outRow) ==
    IF i >= m.m_cols THEN Ret(outRow)
    ELSE Bind(get(m, row, i), LAMBDA v :
         getRow_loop(m, row, i + 1, Append(outRow, v)))

\* getRow(row)
getRow(m, row) == getRow_loop(m, row, 0, <<>>)

RECURSIVE getCol_loop(_, _, _, _)
\* for (i < m_rows) outCol.at(i) = get(i, col)
getCol_loop(m, col, i, outCol) ==
    IF i >= m.m_rows THEN Ret(outCol)
    ELSE Bind(get(m, i, col), LAMBDA v :
         getCol_loop(m, col, i + 1, Append(outCol, v)))

\* getCol(col)
getCol(m, col) == getCol_loop(m, col, 0, <<>>)

-----------------------------------------------------------------------------
(* Vector<T>, src/inc/Vector.h.  A vector is a record of its members       *)
(* m_length and vec_data, the array being a sequence.                      *)

\* Vector(len)
Vector_ctor(len) ==
    IF len < 1
    THEN Throw("invalid_argument")
    ELSE Ret([m_length |-> len, vec_data |-> [k \in 1..len |-> UNINIT]])

\* Vector(std::initializer_list<T> const& vecData)
Vector_from_list(vecData) ==
    IF Len(vecData) = 0
    THEN Throw("invalid_argument")
    ELSE Ret([m_length |-> Len(vecData), vec_data |-> vecData])

\* Vector(std::vector<T> inpVec)
Vector_from_std(inpVec) ==
    IF Len(inpVec) = 0
    THEN Throw("invalid_argument")
    ELSE Ret([m_length |-> Len(inpVec),
              vec_data |-> [k \in 1..Len(inpVec) |-> inpVec[k]]])

\* Vector::get(index)
VecGet(v, index) ==
    IF ~(index < v.m_length)
    THEN Throw("invalid_argument")
    ELSE Ret(v.vec_data[index + 1])

\* Vector::set that tests index <= m_length
VecSet_offbyone(v, index, val) ==
    IF ~(index <= v.m_length)
    THEN Mut("invalid_argument", v)
    ELSE Mut("none", [v EXCEPT !.vec_data =
                        [k \in 1..v.m_length |->
                            IF k = index + 1 \/ (index = v.m_length /\ k = 1)
                            THEN val ELSE v.vec_data[k]]])

\* Vector::set(index, val), on the object itself
VecSet(v, index, val) ==
    IF ~(index < v.m_length)
    THEN Mut("invalid_argument", v)
    ELSE Mut("none", [v EXCEPT !.vec_data[index + 1] = val])

RECURSIVE VecDot_loop(_, _, _, _)
\* for (i < m_length) sum += vec_data[i] * vec.get_data()[i]
VecDot_loop(v, other, i, sum) ==
    IF i >= v.m_length THEN sum
    ELSE Strict(sum + v.vec_data[i + 1] * other.vec_data[i + 1], LAMBDA q :
         VecDot_loop(v, other, i + 1, q))

\* the dot product that leaves the last element out
VecDot_short(v, other) ==
    IF other.m_length # v.m_length
    THEN Throw("invalid_argument")
    ELSE Ret(VecDot_loop([v EXCEPT !.m_length = v.m_length - 1], other, 0, 0))

\* operator*(Vector<T> const& vec): the dot product
VecDot(v, other) ==
    IF other.m_length # v.m_length
    THEN Throw("invalid_argument")
    ELSE Ret(VecDot_loop(v, other, 0, 0))

\* v.get(i) * w.get(j) - v.get(k) * w.get(l)
CrossTerm(v, i, w, j, k, l) ==
    Bind(VecGet(v, i), LAMBDA a : Bind(VecGet(w, j), LAMBDA b :
    Bind(VecGet(v, k), LAMBDA c : Bind(VecGet(w, l), LAMBDA d :
    Ret(a * b - c * d)))))

\* crossR3(Vector<T> const& vec)
crossR3(v, other) ==
    IF v.m_length # 3 \/ other.m_length # 3
    THEN Throw("invalid_argument")
    ELSE Bind(Vector_ctor(3), LAMBDA outVec :
         Bind(CrossTerm(v, 1, other, 2, 2, 1), LAMBDA c0 :
         Bind(CrossTerm(v, 2, other, 0, 0, 2), LAMBDA c1 :
         Bind(CrossTerm(v, 0, other, 1, 1, 1), LAMBDA c2 :
         Strict(VecSet(outVec, 0, c0), LAMBDA s0 :
         Strict(VecSet(s0.obj, 1, c1), LAMBDA s1 :
         Strict(VecSet(s1.obj, 2, c2), LAMBDA s2 :
         Ret(s2.obj))))))))

-----------------------------------------------------------------------------
(* The Matrix engine as a state machine: a matrix is built from a literal  *)
(* and one member function is called on it.                                *)

\* the literals of r rows and c columns: the first MaxFreeCells elements
\* (row-major) range over ElemVals, element number k after them is (k % 3) + 1
Literals(r, c) ==
    LET free == IF r * c < MaxFreeCells THEN r * c ELSE MaxFreeCells
    IN  {[i \in 1..r |-> [j \in 1..c |->
            IF (i - 1) * c + j <= free THEN f[(i - 1) * c + j]
            ELSE (((i - 1) * c + j) % 3) + 1]] : f \in [1..free -> ElemVals]}

\* Matrix<double>({{5,6,9},{2,1,6},{1,2,3}}), the literal of the 3x3 scenario
Scenario1 == <<<<5, 6, 9>>, <<2, 1, 6>>, <<1, 2, 3>>>>

MatInputs ==
    {Matrix_list(l).val :
        l \in (UNION {Literals(n, n) : n \in 1..MaxDim}) \cup {Scenario1}}

\* the Matrix engine before it is used
MatIdle ==
    /\ mat = Matrix_list(<<<<0>>>>).val
    /\ matOp = "idle"
    /\ matRes = Ret("none")

\* a call without arguments
NoArg == [kind |-> "none"]

\* the Vector engine before it is used
VecIdle ==
    /\ vec = [m_length |-> 1, vec_data |-> <<0>>]
    /\ vecOp = "idle"
    /\ vecRes = Ret("none")

\* the polynomial engine before it is used
PolyIdle ==
    /\ factorList = <<>>
    /\ polyOp = "idle"
    /\ polyRes = <<>>

\* number of Vector and Matrix objects that can be in scope
MaxObjs == 2

Slots == 1..MaxObjs

\* addresses of the free store: an object allocates one array at a time, so
\* MaxObjs arrays are allocated at most
Addrs == 1..MaxObjs

\* a slot that holds no object
NoObj == [kind |-> "none"]

\* an address of the free store with no array allocated at it
FreeBlock == [live |-> FALSE, data |-> <<>>]

\* no object in scope, nothing allocated
HeapIdle ==
    /\ objs = [o \in Slots |-> NoObj]
    /\ heap = [a \in Addrs |-> FreeBlock]

\* FactorizePoly before it is called
DKIdle ==
    /\ compressedPoly = <<>>
    /\ pc = "idle"
    /\ maxRank = 0
    /\ nextValues = <<>>
    /\ currentValues = <<>>
    /\ iter_count = 0
    /\ all_converged = FALSE
    /\ dkRes = Ret("none")

InitMat ==
    /\ mat \in MatInputs
    /\ matOp = "none"
    /\ matRes = Ret("none")
    /\ PolyIdle
    /\ DKIdle
    /\ HeapIdle
    /\ VecIdle
    /\ arg = NoArg

CallDeterminant ==
    /\ matOp = "none"
    /\ matOp' = "determinant"
    /\ matRes' = determinant(mat)
    /\ UNCHANGED <<mat, polyVars, dkVars, heapVars, vecVars, arg>>

CallAdjoint ==
    /\ matOp = "none"
    /\ matOp' = "adjoint"
    /\ matRes' = adjoint(mat)
    /\ UNCHANGED <<mat, polyVars, dkVars, heapVars, vecVars, arg>>

CallInverse ==
    /\ matOp = "none"
    /\ matOp' = "inverse"
    /\ matRes' = inverse(mat)
    /\ UNCHANGED <<mat, polyVars, dkVars, heapVars, vecVars, arg>>

\* M % M.adjoint()
CallModAdjoint ==
    /\ matOp = "none"
    /\ matOp' = "mod_adjoint"
    /\ matRes' = Bind(adjoint(mat), LAMBDA adj : MatMod(mat, adj))
    /\ UNCHANGED <<mat, polyVars, dkVars, heapVars, vecVars, arg>>

\* M % Matrix<T>::identity(n), n the row count of M
CallModIdentity ==
    /\ matOp = "none"
    /\ matOp' = "mod_identity"
    /\ matRes' = Bind(identity(mat.m_rows), LAMBDA id : MatMod(mat, id))
    /\ UNCHANGED <<mat, polyVars, dkVars, heapVars, vecVars, arg>>

\* Matrix<T>::identity(n) % M
CallIdentityMod ==
    /\ matOp = "none"
    /\ matOp' = "identity_mod"
    /\ matRes' = Bind(identity(mat.m_rows), LAMBDA id : MatMod(id, mat))
    /\ UNCHANGED <<mat, polyVars, dkVars, heapVars, vecVars, arg>>

NextMat ==
    \/ CallDeterminant
    \/ CallAdjoint
    \/ CallInverse
    \/ CallModAdjoint
    \/ CallModIdentity
    \/ CallIdentityMod

SpecMat == InitMat /\ [][NextMat]_vars

-----------------------------------------------------------------------------
(* Reference definitions used by the properties of the Matrix engine *)

RECURSIVE SetSum(_, _)
\* the sum of f[x] over x in S
SetSum(f, S) ==
    IF S = {} THEN 0
    ELSE LET x == CHOOSE y \in S : TRUE
         IN  f[x] + SetSum(f, S \ {x})

RECURSIVE RangeProd(_, _)
\* the product of f[1] .. f[n]
RangeProd(f, n) == IF n = 0 THEN 1 ELSE f[n] * RangeProd(f, n - 1)

Perms(n) == {p \in [1..n -> 1..n] : \A a, b \in 1..n : a # b => p[a] # p[b]}

Inversions(p, n) ==
    Cardinality({ab \in (1..n) \X (1..n) : ab[1] < ab[2] /\ p[ab[1]] > p[ab[2]]})

\* element (i, j), 1-based, of a matrix record
Entry(m, i, j) == m.m_data[(i - 1) * m.m_cols + j]

\* Leibniz formula: sum over the permutations p of sgn(p) * prod_i m[i][p(i)]
RefDet(m) ==
    LET n == m.m_rows
    IN  SetSum([p \in Perms(n) |->
                    (IF Inversions(p, n) % 2 = 0 THEN 1 ELSE -1)
                    * RangeProd([i \in 1..n |-> Entry(m, i, p[i])], n)],
               Perms(n))

\* m with row i and column j (1-based) removed, by index arithmetic
RefSub(m, i, j) ==
    [m_rows |-> m.m_rows - 1, m_cols |-> m.m_cols - 1,
     m_data |-> [k \in 1..((m.m_rows - 1) * (m.m_cols - 1)) |->
                    LET r == ((k - 1) \div (m.m_cols - 1)) + 1
                        c == ((k - 1) % (m.m_cols - 1)) + 1
                    IN  Entry(m, IF r >= i THEN r + 1 ELSE r,
                                 IF c >= j THEN c + 1 ELSE c)]]

\* the adjugate of a square matrix: entry (i, j) is the cofactor of (j, i);
\* the adjugate of a 1x1 matrix is (1)
RefAdj(m) ==
    [m_rows |-> m.m_rows, m_cols |-> m.m_cols,
     m_data |-> [k \in 1..(m.m_rows * m.m_cols) |->
                    LET i == ((k - 1) \div m.m_cols) + 1
                        j == ((k - 1) % m.m_cols) + 1
                    IN  IF m.m_rows = 1 THEN 1
                        ELSE (IF (i + j) % 2 = 0 THEN 1 ELSE -1)
                             * RefDet(RefSub(m, j, i))]]

\* d * identity(n)
ScaledIdentity(n, d) ==
    [m_rows |-> n, m_cols |-> n,
     m_data |-> [k \in 1..(n * n) |->
                    IF (k - 1) \div n = (k - 1) % n THEN d ELSE 0]]

-----------------------------------------------------------------------------
(* Properties of the Matrix engine *)

\* C1: for every square matrix with integer entries determinant() returns
\* the reference (Leibniz) determinant, whichever row the zero-count
\* heuristic picks and whichever zero terms are skipped.
C1_DeterminantIsReference ==
    matOp = "determinant" => matRes = Ret(RefDet(mat))

\* a 3x3 matrix whose pivot row is not row 0, with a nonzero determinant
C1_Witness ==
    /\ matOp = "determinant"
    /\ mat.m_rows = 3
    /\ find_zeros_row(mat) # 0
    /\ ~Threw(matRes)
    /\ matRes.val # 0

\* C2 (as stated): Matrix<double>({{5,6,9},{2,1,6},{1,2,3}}).determinant()
\* equals -3.
C2_Scenario1IsMinus3 ==
    (matOp = "determinant" /\ mat = Matrix_list(Scenario1).val)
        => matRes = Ret(-3)

\* C2 (amended): Matrix<double>({{5,6,9},{2,1,6},{1,2,3}}).determinant()
\* equals -18.
C2_Scenario1IsMinus18 ==
    (matOp = "determinant" /\ mat = Matrix_list(Scenario1).val)
        => matRes = Ret(-18)

C2_Witness ==
    /\ matOp = "determinant"
    /\ mat = Matrix_list(Scenario1).val
    /\ ~Threw(matRes)

\* C3: for every square matrix of every size n >= 1, inverse() throws if and
\* only if the determinant is 0, and otherwise returns adjoint() / determinant().
C3_InverseThrowsIffSingular ==
    matOp = "inverse" =>
        /\ Threw(matRes) <=> (RefDet(mat) = 0)
        /\ RefDet(mat) # 0 =>
              matRes = Ret([RefAdj(mat) EXCEPT !.m_data =
                              [k \in DOMAIN RefAdj(mat).m_data |->
                                  DivT(RefAdj(mat).m_data[k], RefDet(mat))]])

\* C4: for every square matrix of size n >= 1, adjoint() returns the
\* transpose of the cofactor matrix and M % M.adjoint() equals
\* determinant(M) * identity(n).
C4_AdjointProductIsDetIdentity ==
    /\ matOp = "adjoint" => matRes = Ret(RefAdj(mat))
    /\ matOp = "mod_adjoint" =>
          matRes = Ret(ScaledIdentity(mat.m_rows, RefDet(mat)))

\* C11: for every square n x n matrix M, M % identity(n) == M and
\* identity(n) % M == M, identity(n) having 1 on the diagonal and 0 elsewhere.
C11_IdentityIsNeutral ==
    /\ matOp \in {"mod_identity", "identity_mod"} =>
          /\ ~Threw(matRes)
          /\ MatEq(matRes.val, mat)
    /\ \A i, j \in 0..(mat.m_rows - 1) :
          get(identity(mat.m_rows).val, i, j) = Ret(IF i = j THEN 1 ELSE 0)

\* identity(3) % M was computed for a 3x3 M that is not symmetric
C11_Witness ==
    /\ matOp = "identity_mod"
    /\ mat.m_rows = 3
    /\ get(mat, 0, 1) # get(mat, 1, 0)
    /\ matRes = Ret(mat)


-----------------------------------------------------------------------------
(* The calls of Matrix and Vector as a state machine: one object is built, *)
(* one call with its arguments is made on it, and where the call changes   *)
(* the object a read-back call follows.  The arguments of the call are in  *)
(* arg from the start.                                                     *)

\* largest row and column count of an operand
MaxSide == 2

\* number of cells of an operand that take every element value
MaxVaryCells == 2

Sides == 1..MaxSide

\* the r x c matrices whose first MaxVaryCells cells vary
Operands(r, c) ==
    LET free == IF r * c < MaxVaryCells THEN r * c ELSE MaxVaryCells
    IN  {Matrix_list([i \in 1..r |-> [j \in 1..c |->
            IF (i - 1) * c + j <= free THEN f[(i - 1) * c + j]
            ELSE (((i - 1) * c + j) % 3) + 1]]).val : f \in [1..free -> ElemVals]}

AllOperands == UNION {Operands(r, c) : r \in Sides, c \in Sides}

\* the right operands: one r x c matrix for every shape and shift
RightOperands ==
    {Matrix_list([i \in 1..r |-> [j \in 1..c |-> s + i + 2 * j]]).val :
        r \in Sides, c \in Sides, s \in ElemVals}

\* arguments of operator+, operator-, operator*, operator% and operator==
BinaryArgs == {[kind |-> "matrix", m |-> m] : m \in RightOperands}

\* a Matrix object and the arguments of the call to make on it
InitCallMatrix(args) ==
    /\ mat \in AllOperands
    /\ matOp = "none"
    /\ matRes = Ret("none")
    /\ arg \in args
    /\ VecIdle

\* row and column counts and lengths handed to a constructor, 0 included
Counts == 0..MaxSide

\* arguments of Matrix(rows, cols)
DimsArgs == {[kind |-> "dims", rows |-> r, cols |-> c] : r \in Counts, c \in Counts}

\* the literal whose row i has lens[i] elements, element k of it being 3 * i + k
LiteralOf(lens) == [i \in 1..Len(lens) |-> [k \in 1..lens[i] |-> 3 * i + k]]

\* arguments of Matrix(matData): no row, empty rows and unequal rows included
LiteralArgs ==
    {[kind |-> "literal", matData |-> LiteralOf(lens)] :
        lens \in UNION {[1..n -> Counts] : n \in Counts}}

\* arguments of Vector(len)
LenArgs == {[kind |-> "len", len |-> n] : n \in Counts}

\* arguments of Vector(vecData) and Vector(inpVec), the empty one included
ListArgs ==
    {[kind |-> "list", data |-> d] : d \in UNION {[1..n -> ElemVals] : n \in Counts}}

\* arguments of Matrix get and set: coordinates up to MaxSide, which is out
\* of range for every operand, and a value no operand holds
CoordArgs ==
    {[kind |-> "coord", row |-> r, col |-> c, val |-> v] :
        r \in Counts, c \in Counts, v \in {0, 9}}

\* arguments of setRow, setCol, getRow and getCol: an index up to MaxSide and
\* data of every length up to MaxSide + 1, of values no operand holds
LineArgs ==
    {[kind |-> "line", index |-> i, data |-> [k \in 1..n |-> 6 + k]] :
        i \in Counts, n \in 0..(MaxSide + 1)}

\* largest length of a Vector operand
MaxVecDim == 3

\* Vector<double>({2,3,4}) and Vector<double>({5,6,7}) of main()
vect == Vector_from_list(<<2, 3, 4>>).val

vect2 == Vector_from_list(<<5, 6, 7>>).val

VecOperands ==
    {Vector_from_list(d).val : d \in UNION {[1..n -> ElemVals] : n \in 1..MaxVecDim}}
        \cup {vect, vect2}

\* arguments of Vector get and set, index MaxVecDim being out of range
IndexArgs ==
    {[kind |-> "index", index |-> i, val |-> v] : i \in 0..MaxVecDim, v \in {0, 9}}

\* arguments of the dot product and of crossR3
VectorArgs == {[kind |-> "vector", v |-> v] : v \in VecOperands}

\* a Vector object and the arguments of the call to make on it
InitCallVector(args) ==
    /\ vec \in VecOperands
    /\ vecOp = "none"
    /\ vecRes = Ret("none")
    /\ arg \in args
    /\ MatIdle

\* the arguments of a constructor call; no object exists yet
InitCallCtor ==
    /\ mat = Matrix_list(<<<<0>>>>).val
    /\ matOp = "none"
    /\ matRes = Ret("none")
    /\ vec = [m_length |-> 1, vec_data |-> <<0>>]
    /\ vecOp = "none"
    /\ vecRes = Ret("none")
    /\ arg \in DimsArgs \cup LiteralArgs \cup LenArgs \cup ListArgs

\* largest side of a matrix a sub matrix is taken of
MaxSubSide == 3

\* the matrices with at least two rows and two columns: element (i, j),
\* 0-based, is 10 * i + j + s, so no two elements of a matrix are equal
SubOperands ==
    {Matrix_list([i \in 1..r |-> [j \in 1..c |->
            10 * (i - 1) + (j - 1) + s]]).val :
        r \in 2..MaxSubSide, c \in 2..MaxSubSide, s \in {0, 1}}

\* arguments of createSubMatrix, minor and cofactor: a row and a column up to
\* MaxSubSide, which is out of range for every operand
SubArgs ==
    {[kind |-> "sub", row |-> r, col |-> c] :
        r \in 0..MaxSubSide, c \in 0..MaxSubSide}

\* arguments of operator*(double) and operator/(T), 0 included
ScalarArgs == {[kind |-> "scalar", num |-> n] : n \in {0, 2}}

InitCallSub ==
    /\ mat \in SubOperands
    /\ matOp = "none"
    /\ matRes = Ret("none")
    /\ arg \in SubArgs
    /\ VecIdle

InitCall ==
    /\ PolyIdle
    /\ DKIdle
    /\ HeapIdle
    /\ \/ InitCallMatrix(BinaryArgs)
       \/ InitCallMatrix({NoArg})
       \/ InitCallCtor
       \/ InitCallMatrix(CoordArgs)
       \/ InitCallMatrix(LineArgs)
       \/ InitCallVector(IndexArgs)
       \/ InitCallVector(VectorArgs)
       \/ InitCallSub
       \/ InitCallMatrix(ScalarArgs)

\* a Matrix call that returns res and adds 1 to the first element of the
\* object
MatCall_clobber(kind, op, res) ==
    /\ matOp = "none"
    /\ arg.kind = kind
    /\ matOp' = op
    /\ matRes' = res
    /\ mat' = [mat EXCEPT !.m_data[1] = mat.m_data[1] + 1]
    /\ UNCHANGED <<polyVars, dkVars, heapVars, vecVars, arg>>

\* a Matrix call that returns res and leaves the object alone
MatCall(kind, op, res) ==
    /\ matOp = "none"
    /\ arg.kind = kind
    /\ matOp' = op
    /\ matRes' = res
    /\ UNCHANGED <<mat, polyVars, dkVars, heapVars, vecVars, arg>>

CallAdd == MatCall("matrix", "add", MatAdd(mat, arg.m))

CallSub == MatCall("matrix", "sub", MatSub(mat, arg.m))

CallMul == MatCall("matrix", "mul", MatMul(mat, arg.m))

CallMod == MatCall("matrix", "mod", MatMod(mat, arg.m))

CallTranspose == MatCall("none", "transpose", transpose(mat))

\* transpose().transpose()
CallTransposeTwice ==
    MatCall("none", "transpose_twice", Bind(transpose(mat), transpose))

\* a Vector call that returns res and leaves the object alone
VecCall(kind, op, res) ==
    /\ vecOp = "none"
    /\ arg.kind = kind
    /\ vecOp' = op
    /\ vecRes' = res
    /\ UNCHANGED <<vec, polyVars, dkVars, heapVars, matVars, arg>>

CallMatrixCtor == MatCall("dims", "Matrix", Matrix_ctor(arg.rows, arg.cols))

CallMatrixList == MatCall("literal", "Matrix_list", Matrix_list(arg.matData))

CallVectorCtor == VecCall("len", "Vector", Vector_ctor(arg.len))

CallVectorList == VecCall("list", "Vector_list", Vector_from_list(arg.data))

CallVectorStd == VecCall("list", "Vector_std", Vector_from_std(arg.data))

\* what a call that returns nothing hands back: nothing, or the exception
Outcome(r) == IF r.exc = "none" THEN Ret("void") ELSE Throw(r.exc)

\* a Matrix call that works on the object itself, r its Mut record
MatMutCall(kind, op, r) ==
    /\ matOp = "none"
    /\ arg.kind = kind
    /\ matOp' = op
    /\ mat' = r.obj
    /\ matRes' = Outcome(r)
    /\ UNCHANGED <<polyVars, dkVars, heapVars, vecVars, arg>>

\* a Matrix read call made first or after the call named by after
MatReadCall(kind, after, op, res) ==
    /\ matOp \in {"none", after}
    /\ arg.kind = kind
    /\ matOp' = IF matOp = "none" THEN op ELSE after \o "_" \o op
    /\ matRes' = res
    /\ UNCHANGED <<mat, polyVars, dkVars, heapVars, vecVars, arg>>

CallSet == MatMutCall("coord", "set", set_inplace(mat, arg.row, arg.col, arg.val))

CallGet == MatReadCall("coord", "set", "get", get(mat, arg.row, arg.col))

CallSetRow == MatMutCall("line", "setRow", setRow(mat, arg.index, arg.data))

CallSetCol == MatMutCall("line", "setCol", setCol(mat, arg.index, arg.data))

CallGetRow == MatReadCall("line", "setRow", "getRow", getRow(mat, arg.index))

CallGetCol == MatReadCall("line", "setCol", "getCol", getCol(mat, arg.index))

CallVecSet ==
    /\ vecOp = "none"
    /\ arg.kind = "index"
    /\ vecOp' = "set"
    /\ vec' = VecSet(vec, arg.index, arg.val).obj
    /\ vecRes' = Outcome(VecSet(vec, arg.index, arg.val))
    /\ UNCHANGED <<matVars, polyVars, dkVars, heapVars, arg>>

CallVecGet ==
    /\ vecOp \in {"none", "set"}
    /\ arg.kind = "index"
    /\ vecOp' = IF vecOp = "none" THEN "get" ELSE "set_get"
    /\ vecRes' = VecGet(vec, arg.index)
    /\ UNCHANGED <<vec, matVars, polyVars, dkVars, heapVars, arg>>

CallDot == VecCall("vector", "dot", VecDot(vec, arg.v))

CallCrossR3 == VecCall("vector", "crossR3", crossR3(vec, arg.v))

CallCreateSubMatrix ==
    MatCall("sub", "createSubMatrix", createSubMatrix(mat, arg.row, arg.col))

CallMinor == MatCall("sub", "minor", minor(mat, arg.row, arg.col))

CallCofactor == MatCall("sub", "cofactor", cofactor(mat, arg.row, arg.col))

CallMatEq == MatCall("matrix", "eq", Ret(MatEq(mat, arg.m)))

CallMatScale == MatCall("scalar", "scale", MatScale(mat, arg.num))

CallMatDiv == MatCall("scalar", "div", MatDiv(mat, arg.num))

CallMatDeterminant == MatCall("none", "determinant", determinant(mat))

CallMatAdjoint == MatCall("none", "adjoint", adjoint(mat))

CallMatInverse == MatCall("none", "inverse", inverse(mat))

NextCall ==
    \/ CallAdd
    \/ CallSub
    \/ CallMul
    \/ CallMod
    \/ CallTranspose
    \/ CallTransposeTwice
    \/ CallMatrixCtor
    \/ CallMatrixList
    \/ CallVectorCtor
    \/ CallVectorList
    \/ CallVectorStd
    \/ CallSet
    \/ CallGet
    \/ CallSetRow
    \/ CallSetCol
    \/ CallGetRow
    \/ CallGetCol
    \/ CallVecSet
    \/ CallVecGet
    \/ CallDot
    \/ CallCrossR3
    \/ CallCreateSubMatrix
    \/ CallMinor
    \/ CallCofactor
    \/ CallMatEq
    \/ CallMatScale
    \/ CallMatDiv
    \/ CallMatDeterminant
    \/ CallMatAdjoint
    \/ CallMatInverse

SpecCall == InitCall /\ [][NextCall]_vars

\* the result of a call is a rows x cols matrix whose element (i, j), 1-based,
\* is F[i, j]
IsMatrixOf(res, rows, cols, F) ==
    /\ ~Threw(res)
    /\ res.val.m_rows = rows
    /\ res.val.m_cols = cols
    /\ \A i \in 1..rows, j \in 1..cols :
          get(res.val, i - 1, j - 1) = Ret(F[i, j])

\* C12: operator% of an (m x p) by a (q x n) matrix fails with invalid-argument
\* when p # q; otherwise the result is (m x n) and its entry (i, j) is the sum
\* over k of left(i, k) * right(k, j).
C12_ModIsRowByColumn ==
    matOp = "mod" =>
        IF mat.m_cols # arg.m.m_rows
        THEN matRes = Throw("invalid_argument")
        ELSE IsMatrixOf(matRes, mat.m_rows, arg.m.m_cols,
                 [i \in 1..mat.m_rows, j \in 1..arg.m.m_cols |->
                     SetSum([k \in 1..mat.m_cols |->
                                Entry(mat, i, k) * Entry(arg.m, k, j)],
                            1..mat.m_cols)])

C12_Witness ==
    /\ matOp = "mod"
    /\ mat.m_rows = 1 /\ mat.m_cols = 2 /\ arg.m.m_cols = 2
    /\ ~Threw(matRes)
    /\ matRes.val.m_data = <<mat.m_data[1] * arg.m.m_data[1]
                               + mat.m_data[2] * arg.m.m_data[3],
                             mat.m_data[1] * arg.m.m_data[2]
                               + mat.m_data[2] * arg.m.m_data[4]>>

\* C13: transpose() of a rows x cols matrix of any shape returns a cols x rows
\* matrix with out[j][i] = M[i][j], and transpose(transpose(M)) == M.
C13_TransposeSwapsIndices ==
    /\ matOp = "transpose" =>
          IsMatrixOf(matRes, mat.m_cols, mat.m_rows,
              [j \in 1..mat.m_cols, i \in 1..mat.m_rows |-> Entry(mat, i, j)])
    /\ matOp = "transpose_twice" =>
          /\ ~Threw(matRes)
          /\ MatEq(matRes.val, mat)

C13_Witness ==
    /\ matOp = "transpose"
    /\ mat.m_rows = 1 /\ mat.m_cols = 2 /\ mat.m_data[1] # mat.m_data[2]
    /\ matRes = Ret([m_rows |-> 2, m_cols |-> 1, m_data |-> mat.m_data])

\* the operands of a binary call have the same row and column counts
SameDims == mat.m_rows = arg.m.m_rows /\ mat.m_cols = arg.m.m_cols

\* C14: matrix +, - and element-wise * fail with invalid-argument when the
\* operands differ in row count or column count; otherwise element (i, j) of
\* the result is left(i, j) + right(i, j), left(i, j) - right(i, j) and
\* left(i, j) * right(i, j).
C14_ElementwiseNeedsSameDims ==
    /\ matOp \in {"add", "sub", "mul"} /\ ~SameDims =>
          matRes = Throw("invalid_argument")
    /\ matOp = "add" /\ SameDims =>
          IsMatrixOf(matRes, mat.m_rows, mat.m_cols,
              [i \in 1..mat.m_rows, j \in 1..mat.m_cols |->
                  Entry(mat, i, j) + Entry(arg.m, i, j)])
    /\ matOp = "sub" /\ SameDims =>
          IsMatrixOf(matRes, mat.m_rows, mat.m_cols,
              [i \in 1..mat.m_rows, j \in 1..mat.m_cols |->
                  Entry(mat, i, j) - Entry(arg.m, i, j)])
    /\ matOp = "mul" /\ SameDims =>
          IsMatrixOf(matRes, mat.m_rows, mat.m_cols,
              [i \in 1..mat.m_rows, j \in 1..mat.m_cols |->
                  Entry(mat, i, j) * Entry(arg.m, i, j)])

C14_Witness ==
    /\ matOp = "add"
    /\ mat.m_rows = 2 /\ mat.m_cols = 1
    /\ arg.m.m_rows = 1 /\ arg.m.m_cols = 1
    /\ matRes = Throw("invalid_argument")

\* C15: construction fails with invalid-argument for Matrix(rows, cols) with
\* rows = 0 or cols = 0, for a Matrix literal that is empty, contains an empty
\* row or has rows of unequal length, for Vector(0) and for a Vector built
\* from an empty literal or an empty sequence; every other construction
\* succeeds.
C15_ConstructionFailsOnEmpty ==
    /\ matOp = "Matrix" =>
          IF arg.rows = 0 \/ arg.cols = 0
          THEN matRes = Throw("invalid_argument")
          ELSE /\ ~Threw(matRes)
               /\ matRes.val.m_rows = arg.rows
               /\ matRes.val.m_cols = arg.cols
               /\ Len(matRes.val.m_data) = arg.rows * arg.cols
    /\ matOp = "Matrix_list" =>
          LET d == arg.matData
          IN  IF \/ d = <<>>
                 \/ \E i \in 1..Len(d) : d[i] = <<>>
                 \/ \E i, j \in 1..Len(d) : Len(d[i]) # Len(d[j])
              THEN matRes = Throw("invalid_argument")
              ELSE IsMatrixOf(matRes, Len(d), Len(d[1]),
                       [i \in 1..Len(d), j \in 1..Len(d[1]) |-> d[i][j]])
    /\ vecOp = "Vector" =>
          IF arg.len = 0
          THEN vecRes = Throw("invalid_argument")
          ELSE /\ ~Threw(vecRes)
               /\ vecRes.val.m_length = arg.len
               /\ Len(vecRes.val.vec_data) = arg.len
    /\ vecOp \in {"Vector_list", "Vector_std"} =>
          IF arg.data = <<>>
          THEN vecRes = Throw("invalid_argument")
          ELSE vecRes = Ret([m_length |-> Len(arg.data), vec_data |-> arg.data])

C15_Witness ==
    /\ matOp = "Matrix_list"
    /\ Len(arg.matData) = 2
    /\ Len(arg.matData[1]) = 2 /\ Len(arg.matData[2]) = 1
    /\ matRes = Throw("invalid_argument")

\* the coordinates of the call are inside the matrix
CoordInRange == arg.row < mat.m_rows /\ arg.col < mat.m_cols

\* set(row, col, val): in range it stores val and changes no other element,
\* out of range it fails and changes nothing
SetStoresOneElement ==
    CallSet =>
        IF CoordInRange
        THEN /\ matRes' = Ret("void")
             /\ mat'.m_rows = mat.m_rows /\ mat'.m_cols = mat.m_cols
             /\ \A i \in 1..mat.m_rows, j \in 1..mat.m_cols :
                   Entry(mat', i, j) =
                       IF i = arg.row + 1 /\ j = arg.col + 1 THEN arg.val
                       ELSE Entry(mat, i, j)
        ELSE Threw(matRes') /\ mat' = mat

\* Vector set(index, val): the same for a vector
VecSetStoresOneElement ==
    CallVecSet =>
        IF arg.index < vec.m_length
        THEN /\ vecRes' = Ret("void")
             /\ vec'.m_length = vec.m_length
             /\ \A k \in 1..vec.m_length :
                   vec'.vec_data[k] =
                       IF k = arg.index + 1 THEN arg.val ELSE vec.vec_data[k]
        ELSE Threw(vecRes') /\ vec' = vec

\* get fails out of range, returns the stored element in range, and after a
\* set in range returns the value set
GetReturnsElement ==
    /\ matOp \in {"get", "set_get"} =>
          IF CoordInRange
          THEN matRes = Ret(Entry(mat, arg.row + 1, arg.col + 1))
          ELSE Threw(matRes)
    /\ matOp = "set_get" /\ CoordInRange => matRes = Ret(arg.val)
    /\ vecOp \in {"get", "set_get"} =>
          IF arg.index < vec.m_length
          THEN vecRes = Ret(vec.vec_data[arg.index + 1])
          ELSE Threw(vecRes)
    /\ vecOp = "set_get" /\ arg.index < vec.m_length => vecRes = Ret(arg.val)

\* C16: Matrix get/set with row >= rows or col >= cols, and Vector get/set
\* with index >= length, fail with an error and leave every stored element
\* unchanged; with coordinates in range set(i, v) followed by get(i) returns v
\* and no other element changes.
C16_GetSetBounds ==
    /\ [][SetStoresOneElement]_vars
    /\ [][VecSetStoresOneElement]_vars
    /\ [][CallGet => mat' = mat]_vars
    /\ [][CallVecGet => vec' = vec]_vars
    /\ []GetReturnsElement

C16_Witness ==
    /\ vecOp = "set_get"
    /\ vec.m_length = 3 /\ arg.index = 2 /\ arg.val = 9
    /\ vec.vec_data[1] # 9 /\ vec.vec_data[3] = 9
    /\ vecRes = Ret(9)

\* the sum over i of a[i] * b[i], for vector records of the same length
RefDot(a, b) ==
    SetSum([i \in 1..a.m_length |-> a.vec_data[i] * b.vec_data[i]],
           1..a.m_length)

\* C17: for two vectors a, b of the same length a * b returns the sum over i
\* of a[i] * b[i], {2,3,4} * {5,6,7} being 56; for vectors of different
\* lengths it fails with invalid-argument.
C17_DotProduct ==
    vecOp = "dot" =>
        /\ IF vec.m_length = arg.v.m_length
           THEN vecRes = Ret(RefDot(vec, arg.v))
           ELSE vecRes = Throw("invalid_argument")
        /\ vec = vect /\ arg.v = vect2 => vecRes = Ret(56)

C17_Witness ==
    /\ vecOp = "dot"
    /\ vec = vect /\ arg.v = vect2
    /\ vecRes = Ret(56)

\* the 3-D cross product of the vector records a and b
RefCross(a, b) ==
    LET x == a.vec_data
        y == b.vec_data
    IN  [m_length |-> 3,
         vec_data |-> <<x[2] * y[3] - x[3] * y[2],
                        x[3] * y[1] - x[1] * y[3],
                        x[1] * y[2] - x[2] * y[1]>>]

\* C18: crossR3 fails unless both operands have length exactly 3, and for
\* vectors a, b of length 3 returns (a1*b2 - a2*b1, a2*b0 - a0*b2,
\* a0*b1 - a1*b0), whose dot product with a and with b is 0.
C18_CrossR3IsCrossProduct ==
    vecOp = "crossR3" =>
        IF vec.m_length = 3 /\ arg.v.m_length = 3
        THEN /\ vecRes = Ret(RefCross(vec, arg.v))
             /\ RefDot(vecRes.val, vec) = 0
             /\ RefDot(vecRes.val, arg.v) = 0
        ELSE Threw(vecRes)

\* the data of the call fits row arg.index of the matrix
RowFits == Len(arg.data) = mat.m_cols /\ arg.index < mat.m_rows

\* the data of the call fits column arg.index of the matrix
ColFits == Len(arg.data) = mat.m_rows /\ arg.index < mat.m_cols

\* setRow overwrites row arg.index and nothing else, or fails and changes
\* nothing
SetRowWritesOneRow ==
    CallSetRow =>
        IF RowFits
        THEN /\ matRes' = Ret("void")
             /\ mat'.m_rows = mat.m_rows /\ mat'.m_cols = mat.m_cols
             /\ \A i \in 1..mat.m_rows, j \in 1..mat.m_cols :
                   Entry(mat', i, j) =
                       IF i = arg.index + 1 THEN arg.data[j]
                       ELSE Entry(mat, i, j)
        ELSE Threw(matRes') /\ mat' = mat

\* setCol overwrites column arg.index and nothing else, or fails and changes
\* nothing
SetColWritesOneCol ==
    CallSetCol =>
        IF ColFits
        THEN /\ matRes' = Ret("void")
             /\ mat'.m_rows = mat.m_rows /\ mat'.m_cols = mat.m_cols
             /\ \A i \in 1..mat.m_rows, j \in 1..mat.m_cols :
                   Entry(mat', i, j) =
                       IF j = arg.index + 1 THEN arg.data[i]
                       ELSE Entry(mat, i, j)
        ELSE Threw(matRes') /\ mat' = mat

\* getRow and getCol after a setRow and a setCol that fitted return the data
GetLineReturnsData ==
    /\ matOp = "setRow_getRow" /\ RowFits => matRes = Ret(arg.data)
    /\ matOp = "setCol_getCol" /\ ColFits => matRes = Ret(arg.data)

\* C19: setRow(r, data) with data of length cols and r in range overwrites
\* exactly row r, getRow(r) then returning data, and leaves every element of
\* every other row unchanged; with a wrong length or an r out of range it
\* fails and no element of the matrix changes.  The same holds for setCol and
\* getCol with rows and columns exchanged.
C19_SetRowSetColFrame ==
    /\ [][SetRowWritesOneRow]_vars
    /\ [][SetColWritesOneCol]_vars
    /\ [][CallGetRow \/ CallGetCol => mat' = mat]_vars
    /\ []GetLineReturnsData

C19_Witness ==
    /\ matOp = "setRow_getRow"
    /\ mat.m_rows = 2 /\ mat.m_cols = 2 /\ arg.index = 1
    /\ matRes = Ret(<<7, 8>>)
    /\ mat.m_data[1] # 7 /\ mat.m_data[3] = 7 /\ mat.m_data[4] = 8

\* 1 when index i lies after the excluded index, 0 otherwise
Shift(i, excluded) == IF i > excluded THEN 1 ELSE 0

\* C27: for every matrix with rows >= 2 and cols >= 2 and every in-range
\* (row, col), createSubMatrix(row, col) returns a (rows-1) x (cols-1) matrix
\* holding exactly the elements not in the given row or column, in their
\* original relative order: out[i'][j'] = in[i][j] with i' = i - (i > row)
\* and j' = j - (j > col).
C27_SubMatrixKeepsOtherElements ==
    (/\ matOp = "createSubMatrix"
     /\ mat.m_rows >= 2 /\ mat.m_cols >= 2
     /\ arg.row < mat.m_rows /\ arg.col < mat.m_cols) =>
        /\ ~Threw(matRes)
        /\ matRes.val.m_rows = mat.m_rows - 1
        /\ matRes.val.m_cols = mat.m_cols - 1
        /\ Len(matRes.val.m_data) = (mat.m_rows - 1) * (mat.m_cols - 1)
        /\ \A i \in (0..(mat.m_rows - 1)) \ {arg.row},
              j \in (0..(mat.m_cols - 1)) \ {arg.col} :
              get(matRes.val, i - Shift(i, arg.row), j - Shift(j, arg.col))
                  = Ret(mat.m_data[i * mat.m_cols + j + 1])

\* the middle row and the first column taken out of a 3 x 2 matrix
C27_Witness ==
    /\ matOp = "createSubMatrix"
    /\ mat.m_rows = 3 /\ mat.m_cols = 2
    /\ arg.row = 1 /\ arg.col = 0
    /\ matRes = Ret([m_rows |-> 2, m_cols |-> 1, m_data |-> <<1, 21>>])

\* the calls of +, -, element-wise *, scalar * and /, %, ==, transpose,
\* createSubMatrix, minor, cofactor, determinant, adjoint and inverse
NonMutatingOps ==
    {"add", "sub", "mul", "scale", "div", "mod", "eq", "transpose",
     "createSubMatrix", "minor", "cofactor", "determinant", "adjoint",
     "inverse"}

-----------------------------------------------------------------------------
(* double arithmetic of the polynomial engine.                             *)
(* A double is modelled in fixed point: the integer x stands for the value *)
(* x / FP_ONE.  Every result is rounded to the nearest representable value *)
(* (ties away from zero, so rounding is symmetric in the sign, as it is    *)
(* for IEEE doubles).  A result whose magnitude exceeds FP_MAX, a division *)
(* by zero and every operation on a non-finite operand give NONFINITE,     *)
(* which stands for +inf, -inf and NaN alike.                              *)

\* the number of representable steps per unit
FP_ONE == 16

\* the largest finite magnitude, in steps
FP_MAX == 20000

NONFINITE == FP_MAX + 1

Abs(x) == IF x < 0 THEN -x ELSE x

\* the quotient a / b of two integers, b > 0, rounded to the nearest integer
RoundDiv(a, b) ==
    IF a < 0 THEN -((b \div 2 - a) \div b) ELSE (a + b \div 2) \div b

\* overflow to a non-finite value
Fin(x) == Strict(x, LAMBDA v : IF Abs(v) > FP_MAX THEN NONFINITE ELSE v)

IsFinite(x) == x # NONFINITE

DAdd(x, y) ==
    Strict2(x, y, LAMBDA a, b :
    IF IsFinite(a) /\ IsFinite(b) THEN Fin(a + b) ELSE NONFINITE)

DSub(x, y) ==
    Strict2(x, y, LAMBDA a, b :
    IF IsFinite(a) /\ IsFinite(b) THEN Fin(a - b) ELSE NONFINITE)

DNeg(x) == IF IsFinite(x) THEN -x ELSE NONFINITE

DMul(x, y) ==
    Strict2(x, y, LAMBDA a, b :
    IF IsFinite(a) /\ IsFinite(b) THEN Fin(RoundDiv(a * b, FP_ONE))
    ELSE NONFINITE)

\* x / y: x / 0 is +-inf or NaN
DDiv(x, y) ==
    Strict2(x, y, LAMBDA a, b :
    IF IsFinite(a) /\ IsFinite(b) /\ b # 0
    THEN Fin(IF b > 0 THEN RoundDiv(a * FP_ONE, b)
                      ELSE RoundDiv((-a) * FP_ONE, -b))
    ELSE NONFINITE)

\* k to the power n, n >= 0, on integers
RECURSIVE IntPow(_, _)
IntPow(k, n) == IF n = 0 THEN 1 ELSE k * IntPow(k, n - 1)

\* r^n <= t, for r, t >= 0, without forming r^n
RECURSIVE PowLeq(_, _, _)
PowLeq(r, n, t) ==
    IF n = 0 THEN 1 <= t
    ELSE r = 0 \/ PowLeq(r, n - 1, t \div r)

\* the largest r in lo..(hi - 1) with r^n <= t, by bisection
RECURSIVE RootFloor(_, _, _, _)
RootFloor(t, n, lo, hi) ==
    IF hi - lo <= 1 THEN lo
    ELSE Strict((lo + hi) \div 2, LAMBDA mid :
         IF PowLeq(mid, n, t) THEN RootFloor(t, n, mid, hi)
                              ELSE RootFloor(t, n, lo, mid))

\* the integer nearest to the n-th root of t >= 0
NearestRoot(t, n) ==
    Strict(RootFloor(t, n, 0, FP_MAX + 2), LAMBDA lo :
    IF t - IntPow(lo, n) <= IntPow(lo + 1, n) - t THEN lo ELSE lo + 1)

\* pow(x, 1.0 / n) for x >= 0
DRoot(x, n) ==
    Strict(x, LAMBDA a :
    IF IsFinite(a) /\ a >= 0
    THEN Fin(NearestRoot(a * IntPow(FP_ONE, n - 1), n))
    ELSE NONFINITE)

\* sqrt(x)
DSqrt(x) == DRoot(x, 2)

\* the double of the integer k
DInt(k) == k * FP_ONE

-----------------------------------------------------------------------------
(* Complex_C_t, src/src/Complex_C.cpp *)

\* Complex_C_t{re, im}
Complex(re, im) == [m_real |-> re, m_imagine |-> im]

\* the conversion of a double to Complex_C_t
CReal(x) == Complex(x, 0)

\* operator+(Complex_C_t, Complex_C_t)
CAdd(l, r) ==
    Strict2(l, r, LAMBDA a, b :
    Complex(DAdd(a.m_real, b.m_real), DAdd(a.m_imagine, b.m_imagine)))

\* operator-(Complex_C_t, Complex_C_t)
CSub(l, r) ==
    Strict2(l, r, LAMBDA a, b :
    Complex(DSub(a.m_real, b.m_real), DSub(a.m_imagine, b.m_imagine)))

\* operator-(Complex_C_t)
CNeg(c) == Strict(c, LAMBDA a : Complex(DNeg(a.m_real), DNeg(a.m_imagine)))

\* operator*(Complex_C_t, Complex_C_t) with the sign of the imaginary
\* products flipped
CMul_plus(l, r) ==
    Strict2(l, r, LAMBDA a, b :
    Complex(DAdd(DMul(a.m_real, b.m_real), DMul(a.m_imagine, b.m_imagine)),
            DAdd(DMul(a.m_real, b.m_imagine), DMul(a.m_imagine, b.m_real))))

\* operator*(Complex_C_t, Complex_C_t)
CMul(l, r) ==
    Strict2(l, r, LAMBDA a, b :
    Complex(DSub(DMul(a.m_real, b.m_real), DMul(a.m_imagine, b.m_imagine)),
            DAdd(DMul(a.m_real, b.m_imagine), DMul(a.m_imagine, b.m_real))))

\* operator*(Complex_C_t, double)
CMulReal(l, rreal) ==
    Strict2(l, rreal, LAMBDA a, b :
    Complex(DMul(a.m_real, b), DMul(a.m_imagine, b)))

\* operator/(Complex_C_t, Complex_C_t)
CDiv(l, r) ==
    Strict2(l, r, LAMBDA a, b :
    Strict(DAdd(DMul(b.m_real, b.m_real), DMul(b.m_imagine, b.m_imagine)),
           LAMBDA div :
    Complex(DDiv(DAdd(DMul(a.m_real, b.m_real),
                      DMul(a.m_imagine, b.m_imagine)), div),
            DDiv(DSub(DMul(a.m_imagine, b.m_real),
                      DMul(a.m_real, b.m_imagine)), div))))

\* operator==(Complex_C_t, double); a NaN compares unequal to everything
CEqReal(l, rreal) ==
    Strict(l, LAMBDA a :
    /\ IsFinite(a.m_real) /\ IsFinite(a.m_imagine)
    /\ a.m_real = rreal /\ a.m_imagine = 0)

\* Complex_C_t::absolute()
absolute(c) ==
    Strict(c, LAMBDA a :
    DSqrt(DAdd(DMul(a.m_real, a.m_real), DMul(a.m_imagine, a.m_imagine))))

-----------------------------------------------------------------------------
(* Polynomials, src/src/Poly.cpp.  A Poly_Coeff_t is a sequence of         *)
(* Complex_C_t, element i + 1 of the sequence being the coefficient of     *)
(* x^i; a Poly_factor_t is a record [first, second] for (first*x + second). *)

Factor(a, b) == [first |-> a, second |-> b]

RECURSIVE PolyMul_loop(_, _, _, _)
\* the two nested loops of operator*, k = i * coeffR.size() + j
PolyMul_loop(coeffL, coeffR, k, outCoeff) ==
    IF k >= Len(coeffL) * Len(coeffR)
    THEN outCoeff
    ELSE LET i == k \div Len(coeffR)
             j == k % Len(coeffR)
         IN  Strict([outCoeff EXCEPT ![i + j + 1] =
                        CAdd(@, CMul(coeffL[i + 1], coeffR[j + 1]))],
                    LAMBDA out : PolyMul_loop(coeffL, coeffR, k + 1, out))

\* operator* whose loops leave out coeffL[0] * coeffR[0]
PolyMul_skipfirst(coeffL, coeffR) ==
    PolyMul_loop(coeffL, coeffR, 1,
                 [k \in 1..(Len(coeffL) + Len(coeffR) - 1) |-> CReal(0)])

\* operator*(Poly_Coeff_t, Poly_Coeff_t) on non-empty operands
PolyMul(coeffL, coeffR) ==
    PolyMul_loop(coeffL, coeffR, 0,
                 [k \in 1..(Len(coeffL) + Len(coeffR) - 1) |-> CReal(0)])

RECURSIVE CompressFactors_seconds(_, _, _)
\* product *= factor.second over the factors from index k on
CompressFactors_seconds(factors, k, product) ==
    IF k > Len(factors) THEN product
    ELSE Strict(CMul(product, factors[k].second), LAMBDA q :
         CompressFactors_seconds(factors, k + 1, q))

RECURSIVE CompressFactors_firsts(_, _, _)
\* product *= factor.first over the factors from index k on
CompressFactors_firsts(factors, k, product) ==
    IF k > Len(factors) THEN product
    ELSE Strict(CMulReal(product, factors[k].first), LAMBDA q :
         CompressFactors_firsts(factors, k + 1, q))

RECURSIVE CompressFactors_walk(_, _, _, _, _)

\* the circular walk that never switches to the second components
CompressFactors_walk_first(factors, curFactor, curIdx, x_left, product) ==
    IF curIdx = curFactor
    THEN product
    ELSE Strict(CMulReal(product, factors[curIdx + 1].first), LAMBDA q :
         CompressFactors_walk(factors, curFactor,
                              IF curIdx + 1 = Len(factors) THEN 0
                              ELSE curIdx + 1,
                              x_left, q))

\* the while loop: the circular walk from curIdx back to curFactor (0-based)
CompressFactors_walk(factors, curFactor, curIdx, x_factors_left, product) ==
    IF curIdx = curFactor
    THEN product
    ELSE Strict(IF x_factors_left > 0
                THEN CMulReal(product, factors[curIdx + 1].first)
                ELSE CMul(product, factors[curIdx + 1].second),
                LAMBDA q :
         CompressFactors_walk(factors, curFactor,
                              IF curIdx + 1 = Len(factors) THEN 0
                              ELSE curIdx + 1,
                              IF x_factors_left > 0 THEN x_factors_left - 1
                              ELSE x_factors_left,
                              q))

RECURSIVE CompressFactors_sum(_, _, _, _)
\* the for loop over curFactor (0-based) accumulating sum_product
CompressFactors_sum(factors, curPower, curFactor, sum_product) ==
    IF curFactor >= Len(factors)
    THEN sum_product
    ELSE Strict(CAdd(sum_product,
                     CompressFactors_walk(
                        factors, curFactor,
                        IF curFactor + 1 = Len(factors) THEN 0
                        ELSE curFactor + 1,
                        curPower - 1,
                        CReal(factors[curFactor + 1].first))),
                LAMBDA q :
         CompressFactors_sum(factors, curPower, curFactor + 1, q))

\* CompressFactors(factorList); element p of the result is curPower = p - 1
CompressFactors(factors) ==
    [p \in 1..(Len(factors) + 1) |->
        IF p - 1 = 0
        THEN CompressFactors_seconds(factors, 1, CReal(DInt(1)))
        ELSE IF p - 1 = Len(factors)
        THEN CompressFactors_firsts(factors, 1, CReal(DInt(1)))
        ELSE CompressFactors_sum(factors, p - 1, 0, CReal(0))]

-----------------------------------------------------------------------------
(* CompressFactors as a state machine: a factor list is built and          *)
(* CompressFactors is called on it.                                        *)

\* at most this many factors in a list
MaxFactors == 4

\* roots of the two-factor lists have real and imaginary parts in
\* -MaxRoot..MaxRoot
MaxRoot == 2

\* the factors the longer lists are built from:
\* (x - 1), (x + 1), (2x + 1), (x + i)
\* operator-(Poly_Coeff_t, Poly_Coeff_t) that copies the elements only coeffR
\* has
PolySub_noneg(coeffL, coeffR) ==
    LET shorterRank == IF Len(coeffL) < Len(coeffR) THEN Len(coeffL) ELSE Len(coeffR)
        highestRank == IF Len(coeffL) > Len(coeffR) THEN Len(coeffL) ELSE Len(coeffR)
    IN  [i \in 1..highestRank |->
            IF i - 1 < shorterRank THEN CSub(coeffL[i], coeffR[i])
            ELSE IF Len(coeffL) > Len(coeffR) THEN coeffL[i]
            ELSE coeffR[i]]

\* operator+(const Poly_Coeff_t& coeffL, const Poly_Coeff_t& coeffR)
PolyAdd(coeffL, coeffR) ==
    LET highestRank == IF Len(coeffL) > Len(coeffR) THEN Len(coeffL) ELSE Len(coeffR)
        shorterRank == IF Len(coeffL) < Len(coeffR) THEN Len(coeffL) ELSE Len(coeffR)
        LHigherRank == Len(coeffL) > Len(coeffR)
    IN  [i \in 1..highestRank |->
            IF i - 1 < shorterRank THEN CAdd(coeffL[i], coeffR[i])
            ELSE IF LHigherRank THEN coeffL[i]
            ELSE coeffR[i]]

\* operator-(const Poly_Coeff_t& coeffL, const Poly_Coeff_t& coeffR)
PolySub(coeffL, coeffR) ==
    LET highestRank == IF Len(coeffL) > Len(coeffR) THEN Len(coeffL) ELSE Len(coeffR)
        shorterRank == IF Len(coeffL) < Len(coeffR) THEN Len(coeffL) ELSE Len(coeffR)
        LHigherRank == Len(coeffL) > Len(coeffR)
    IN  [i \in 1..highestRank |->
            IF i - 1 < shorterRank THEN CSub(coeffL[i], coeffR[i])
            ELSE IF LHigherRank THEN coeffL[i]
            ELSE CNeg(coeffR[i])]

\* largest length of an operand of the polynomial sum and difference
MaxPolyLen == 2

\* the coefficients of the operands: 0, 1 and one with an imaginary part
TermVals == {CReal(0), CReal(DInt(1)), Complex(DInt(-MaxRoot), DInt(MaxRoot))}

TermLists == UNION {[1..n -> TermVals] : n \in 0..MaxPolyLen}

\* arguments of operator+ and operator- of coefficient vectors
PolyArgs == {[kind |-> "polys", L |-> l, R |-> r] : l \in TermLists, r \in TermLists}

FactorVals ==
    {Factor(DInt(1), Complex(DInt(-1), 0)),
     Factor(DInt(1), Complex(DInt(1), 0)),
     Factor(DInt(2), Complex(DInt(1), 0)),
     Factor(DInt(1), Complex(0, DInt(1)))}

RootVals ==
    {Complex(DInt(re), DInt(im)) : re \in -MaxRoot..MaxRoot,
                                   im \in -MaxRoot..MaxRoot}

\* {(1, -r1), (1, -r2)}
RootPair(r1, r2) == <<Factor(DInt(1), CNeg(r1)), Factor(DInt(1), CNeg(r2))>>

FactorLists ==
    (UNION {[1..n -> FactorVals] : n \in 0..MaxFactors})
    \cup {RootPair(r1, r2) : r1 \in RootVals, r2 \in RootVals}

InitPoly ==
    /\ \/ factorList \in FactorLists /\ arg = NoArg
       \/ factorList = <<>> /\ arg \in PolyArgs
    /\ polyOp = "none"
    /\ polyRes = <<>>
    /\ MatIdle
    /\ DKIdle
    /\ HeapIdle
    /\ VecIdle

CallCompressFactors ==
    /\ polyOp = "none"
    /\ polyOp' = "CompressFactors"
    /\ polyRes' = CompressFactors(factorList)
    /\ UNCHANGED <<factorList, matVars, dkVars, heapVars, vecVars, arg>>

CallPolyAdd ==
    /\ polyOp = "none"
    /\ arg.kind = "polys"
    /\ polyOp' = "add"
    /\ polyRes' = PolyAdd(arg.L, arg.R)
    /\ UNCHANGED <<factorList, matVars, dkVars, heapVars, vecVars, arg>>

CallPolySub ==
    /\ polyOp = "none"
    /\ arg.kind = "polys"
    /\ polyOp' = "sub"
    /\ polyRes' = PolySub(arg.L, arg.R)
    /\ UNCHANGED <<factorList, matVars, dkVars, heapVars, vecVars, arg>>

\* operator* of two non-empty coefficient vectors
CallPolyMul ==
    /\ polyOp = "none"
    /\ arg.kind = "polys"
    /\ Len(arg.L) > 0 /\ Len(arg.R) > 0
    /\ polyOp' = "mul"
    /\ polyRes' = PolyMul(arg.L, arg.R)
    /\ UNCHANGED <<factorList, matVars, dkVars, heapVars, vecVars, arg>>

NextPoly ==
    \/ CallCompressFactors
    \/ CallPolyAdd
    \/ CallPolySub
    \/ CallPolyMul

SpecPoly == InitPoly /\ [][NextPoly]_vars

-----------------------------------------------------------------------------
(* Properties of CompressFactors *)

RECURSIVE ProductOfFactors(_, _)
\* the repeated operator* of the vectors [second, first] of factors 1..n
ProductOfFactors(factors, n) ==
    IF n = 0 THEN <<CReal(DInt(1))>>
    ELSE PolyMul(ProductOfFactors(factors, n - 1),
                 <<factors[n].second, CReal(factors[n].first)>>)

\* C5: for every list of n >= 0 factors CompressFactors returns the
\* coefficients of the product of the linear terms, i.e. the repeated
\* polynomial product of the vectors [b_k, a_k], for every n including n >= 4.
C5_CompressIsProduct ==
    polyOp = "CompressFactors" =>
        polyRes = ProductOfFactors(factorList, Len(factorList))

\* C6: for all roots r1, r2, CompressFactors([(1,-r1),(1,-r2)]) returns
\* exactly the 3-element vector [r1*r2, -(r1+r2), 1].
C6_TwoRoots ==
    \A r1, r2 \in RootVals :
        (polyOp = "CompressFactors" /\ factorList = RootPair(r1, r2)) =>
            polyRes = <<CMul(r1, r2), CNeg(CAdd(r1, r2)), CReal(DInt(1))>>

\* two distinct complex roots, neither of them real
C6_Witness ==
    /\ polyOp = "CompressFactors"
    /\ \E r1, r2 \in RootVals :
          /\ factorList = RootPair(r1, r2)
          /\ r1 # r2
          /\ r1.m_imagine # 0 /\ r2.m_imagine # 0
          /\ r1.m_real # 0 /\ r2.m_real # 0

\* element i, 1-based, of a coefficient vector, 0 where it has none
Padded(coeff, i) == IF i <= Len(coeff) THEN coeff[i] ELSE CReal(0)

MaxLen(l, r) == IF Len(l) > Len(r) THEN Len(l) ELSE Len(r)

\* C20: for coefficient vectors L and R of any lengths, L + R and L - R have
\* length max(len L, len R) and element i is L[i] + R[i] and L[i] - R[i], a
\* missing element of the shorter operand counting as 0, so that where only R
\* has an element L - R holds its negation.
C20_PolySumPadsWithZero ==
    /\ polyOp = "add" =>
          /\ Len(polyRes) = MaxLen(arg.L, arg.R)
          /\ \A i \in 1..Len(polyRes) :
                polyRes[i] = CAdd(Padded(arg.L, i), Padded(arg.R, i))
    /\ polyOp = "sub" =>
          /\ Len(polyRes) = MaxLen(arg.L, arg.R)
          /\ \A i \in 1..Len(polyRes) :
                /\ polyRes[i] = CSub(Padded(arg.L, i), Padded(arg.R, i))
                /\ i > Len(arg.L) => polyRes[i] = CNeg(arg.R[i])

C20_Witness ==
    /\ polyOp = "sub"
    /\ Len(arg.L) = 1 /\ Len(arg.R) = 2
    /\ arg.R[2] = Complex(DInt(-MaxRoot), DInt(MaxRoot))
    /\ polyRes[2] = Complex(DInt(MaxRoot), DInt(-MaxRoot))

\* the pairs (i, j), 1-based, of an element of l and one of r whose 0-based
\* indices add up to k
TermsOf(l, r, k) ==
    {ij \in (1..Len(l)) \X (1..Len(r)) : (ij[1] - 1) + (ij[2] - 1) = k}

\* sum of l[i] * r[j] over the pairs of TermsOf(l, r, k), the values being
\* well inside the range of the arithmetic
RefConvolution(l, r, k) ==
    Complex(SetSum([ij \in TermsOf(l, r, k) |-> CMul(l[ij[1]], r[ij[2]]).m_real],
                   TermsOf(l, r, k)),
            SetSum([ij \in TermsOf(l, r, k) |-> CMul(l[ij[1]], r[ij[2]]).m_imagine],
                   TermsOf(l, r, k)))

\* C21: for non-empty coefficient vectors L and R, L * R has length
\* len L + len R - 1, result[k] is the sum of L[i] * R[j] over all i, j with
\* i + j = k, and L * R = R * L.
C21_PolyProductIsConvolution ==
    polyOp = "mul" =>
        /\ Len(polyRes) = Len(arg.L) + Len(arg.R) - 1
        /\ \A k \in 1..Len(polyRes) :
              polyRes[k] = RefConvolution(arg.L, arg.R, k - 1)
        /\ polyRes = PolyMul(arg.R, arg.L)

C21_Witness ==
    /\ polyOp = "mul"
    /\ Len(arg.L) = 2 /\ Len(arg.R) = 2 /\ arg.L # arg.R
    /\ \A k \in 1..2 : arg.L[k] # CReal(0) /\ arg.R[k] # CReal(0)
    /\ Len(polyRes) = 3
    /\ polyRes[2] = CAdd(CMul(arg.L[1], arg.R[2]), CMul(arg.L[2], arg.R[1]))

-----------------------------------------------------------------------------
(* FactorizePoly, src/src/Poly.cpp: Durand-Kerner root finding *)

\* size_t is modelled SizeBits wide; 0 - 1 wraps to the largest value
SizeBits == 16

SizeSub(a, b) == (a - b) % IntPow(2, SizeBits)

\* the ceiling on Durand-Kerner iterations.  The source sets 1048576; the
\* model runs the same loop under a smaller ceiling.
MAX_DK_ITERATIONS == 6

\* 1.0E-9 lies strictly between 0 and one step of the fixed-point grid, so
\* d < MIN_DIFF_CONV_TEST holds exactly when d is less than one step
MIN_DIFF_CONV_TEST == 1

\* 1.0E-12 lies strictly between 0 and one step of the fixed-point grid
SMALLEST_ALLOWED_START_VAL == 1

\* 10000 * cos((4i + 1) * pi / (2n)), row n, column i + 1: the cosines of
\* the angles i * base_angle + offset of a rank-n polynomial
CosTable ==
    <<<<0>>,
      <<7071, -7071>>,
      <<8660, -8660, 0>>,
      <<9239, -3827, -9239, 3827>>,
      <<9511, 0, -9511, -5878, 5878>>,
      <<9659, 2588, -7071, -9659, -2588, 7071>>>>

\* 10000 * sin((4i + 1) * pi / (2n)), row n, column i + 1
SinTable ==
    <<<<10000>>,
      <<7071, -7071>>,
      <<5000, 5000, -10000>>,
      <<3827, 9239, -3827, -9239>>,
      <<3090, 10000, 3090, -8090, -8090>>,
      <<2588, 9659, 7071, -2588, -9659, -7071>>>>

\* polarToCart({radius, (i * base_angle) + offset}) for a rank-n polynomial:
\* radius * cos(angle) + i * radius * sin(angle)
polarToCart(radius, n, i) ==
    Complex(DMul(radius, RoundDiv(CosTable[n][i + 1] * FP_ONE, 10000)),
            DMul(radius, RoundDiv(SinTable[n][i + 1] * FP_ONE, 10000)))

\* fabs(x) < SMALLEST_ALLOWED_START_VAL ? 0.0 : x
SnapSmall(x) ==
    IF IsFinite(x) /\ Abs(x) < SMALLEST_ALLOWED_START_VAL THEN 0 ELSE x

RECURSIVE powReal_loop(_, _, _)
powReal_loop(base, raise, acc) ==
    IF raise = 0 THEN acc
    ELSE Strict(CMul(acc, base), LAMBDA q : powReal_loop(base, raise - 1, q))

\* powReal(base, raise) for an integer raise >= 0:
\* |base|^raise * (cos(raise * arg) + i sin(raise * arg)), which is base^raise;
\* argument() of 0 + 0i is NAN, and so is the result then
powReal(base, raise) ==
    IF ~IsFinite(base.m_real) \/ ~IsFinite(base.m_imagine)
    THEN Complex(NONFINITE, NONFINITE)
    ELSE IF base.m_real = 0 /\ base.m_imagine = 0
    THEN Complex(NONFINITE, NONFINITE)
    ELSE powReal_loop(base, raise, CReal(DInt(1)))

RECURSIVE getValCompressedPoly_loop(_, _, _, _)
getValCompressedPoly_loop(x, poly, i, sum_factors) ==
    IF i >= Len(poly) THEN sum_factors
    ELSE IF ~CEqReal(poly[i + 1], 0)
    THEN Strict(CAdd(sum_factors, CMul(poly[i + 1], powReal(x, i))),
                LAMBDA q : getValCompressedPoly_loop(x, poly, i + 1, q))
    ELSE getValCompressedPoly_loop(x, poly, i + 1, sum_factors)

\* getValCompressedPoly(x, compressedPoly)
getValCompressedPoly(x, poly) ==
    getValCompressedPoly_loop(x, poly, 0, CReal(0))

\* the search that stops at the constant coefficient whatever its value
first_nonzero_loop_constant(poly, k) ==
    IF k > Len(poly) THEN Complex(0, 0) ELSE poly[k]

RECURSIVE first_nonzero_loop(_, _)
\* the loop that finds first_nonzero_coeff; a default-constructed
\* Complex_C_t when every coefficient is 0
first_nonzero_loop(poly, k) ==
    IF k > Len(poly) THEN Complex(0, 0)
    ELSE IF ~CEqReal(poly[k], 0) THEN poly[k]
    ELSE first_nonzero_loop(poly, k + 1)

\* const double radius = pow(first_nonzero_coeff.absolute()
\*                           / compressedPoly.at(maxRank).absolute(),
\*                           1.0 / maxRank)
Radius(poly, rank) ==
    DRoot(DDiv(absolute(first_nonzero_loop(poly, 1)),
               absolute(poly[rank + 1])), rank)

\* the rank points on the circle of the given radius, after the small-value
\* fix
StartCircle(radius, rank) ==
    [k \in 1..rank |->
        Strict(polarToCart(radius, rank, k - 1), LAMBDA v :
        Complex(SnapSmall(v.m_real), SnapSmall(v.m_imagine)))]

\* the starting values
StartValues(poly, rank) ==
    Strict(Radius(poly, rank), LAMBDA radius : StartCircle(radius, rank))

RECURSIVE sub_product_loop(_, _, _, _)
\* sub_product *= curVal - currentValues.at(j) for j # i (0-based)
sub_product_loop(cur, i, j, sub_product) ==
    IF j >= Len(cur) THEN sub_product
    ELSE IF j # i
    THEN Strict(CMul(sub_product, CSub(cur[i + 1], cur[j + 1])), LAMBDA q :
         sub_product_loop(cur, i, j + 1, q))
    ELSE sub_product_loop(cur, i, j + 1, sub_product)

\* nextValues.at(i) = curVal - (getValCompressedPoly(curVal, compressedPoly)
\*                              / sub_product)
NextValue(poly, cur, i) ==
    CSub(cur[i + 1],
         CDiv(getValCompressedPoly(cur[i + 1], poly),
              sub_product_loop(cur, i, 0, CReal(DInt(1)))))

\* the body of the update loop with one vector for both roles: the estimate
\* is computed from the vector that is being written
update_step_inplace(poly, cur, nxt, i) ==
    Strict(NextValue(poly, nxt, i), LAMBDA v : [nxt EXCEPT ![i + 1] = v])

\* the body of  for (size_t i = 0; i < currentValues.size(); i++):
\* reads currentValues, writes nextValues.at(i)
update_step(poly, cur, nxt, i) ==
    Strict(NextValue(poly, cur, i), LAMBDA v : [nxt EXCEPT ![i + 1] = v])

RECURSIVE update_loop(_, _, _, _)
\* the update loop from index i on
update_loop(poly, cur, nxt, i) ==
    IF i >= Len(cur) THEN nxt
    ELSE Strict(update_step(poly, cur, nxt, i), LAMBDA n :
         update_loop(poly, cur, n, i + 1))

\* std::abs(currentValues.at(i).absolute() - nextValues.at(i).absolute())
\*     < MIN_DIFF_CONV_TEST; a comparison with NaN is false
RootConverged(c, n) ==
    Strict(DSub(absolute(c), absolute(n)), LAMBDA d :
    IsFinite(d) /\ Abs(d) < MIN_DIFF_CONV_TEST)

RECURSIVE converged_loop_nobreak(_, _, _, _)
\* the convergence loop without its break: the last root decides
converged_loop_nobreak(cur, nxt, i, conv) ==
    IF i >= Len(cur) THEN conv
    ELSE converged_loop_nobreak(cur, nxt, i + 1,
                                RootConverged(cur[i + 1], nxt[i + 1]))

RECURSIVE converged_loop(_, _, _, _)
\* the convergence loop with its break (i is 0-based)
converged_loop(cur, nxt, i, conv) ==
    IF i >= Len(cur) THEN conv
    ELSE IF RootConverged(cur[i + 1], nxt[i + 1])
    THEN converged_loop(cur, nxt, i + 1, TRUE)
    ELSE FALSE

-----------------------------------------------------------------------------
(* FactorizePoly as a state machine: entry, one step per iteration of the  *)
(* while loop, return.                                                     *)

\* input polynomials have rank at most MaxRank (MaxRank + 1 coefficients)
MaxRank == 3

\* input coefficients are -MaxCoef, 0 and MaxCoef
MaxCoef == 1

CoefVals == {CReal(DInt(c)) : c \in {-MaxCoef, 0, MaxCoef}}

PolyInputs == UNION {[1..n -> CoefVals] : n \in 0..(MaxRank + 1)}

InitDK ==
    /\ compressedPoly \in PolyInputs
    /\ pc = "entry"
    /\ maxRank = 0
    /\ nextValues = <<>>
    /\ currentValues = <<>>
    /\ iter_count = 0
    /\ all_converged = FALSE
    /\ dkRes = Ret("none")
    /\ MatIdle
    /\ PolyIdle
    /\ HeapIdle
    /\ VecIdle
    /\ arg = NoArg

\* the rank check: maxRank < 2 throws std::invalid_argument
FactorizePoly_throw ==
    /\ pc = "entry"
    /\ SizeSub(Len(compressedPoly), 1) < 2
    /\ maxRank' = SizeSub(Len(compressedPoly), 1)
    /\ pc' = "thrown"
    /\ dkRes' = Throw("invalid_argument")
    /\ UNCHANGED <<compressedPoly, nextValues, currentValues, iter_count,
                   all_converged, matVars, polyVars, heapVars, vecVars, arg>>

\* compressedPoly.at(maxRank) with maxRank >= size() throws std::out_of_range
FactorizePoly_at_throw ==
    /\ pc = "entry"
    /\ SizeSub(Len(compressedPoly), 1) >= 2
    /\ SizeSub(Len(compressedPoly), 1) >= Len(compressedPoly)
    /\ maxRank' = SizeSub(Len(compressedPoly), 1)
    /\ pc' = "thrown"
    /\ dkRes' = Throw("out_of_range")
    /\ UNCHANGED <<compressedPoly, nextValues, currentValues, iter_count,
                   all_converged, matVars, polyVars, heapVars, vecVars, arg>>

\* from the entry to the while loop: the starting values
FactorizePoly_start ==
    /\ pc = "entry"
    /\ SizeSub(Len(compressedPoly), 1) >= 2
    /\ SizeSub(Len(compressedPoly), 1) < Len(compressedPoly)
    /\ maxRank' = SizeSub(Len(compressedPoly), 1)
    /\ nextValues' = StartValues(compressedPoly, maxRank')
    /\ currentValues' = nextValues'
    /\ iter_count' = 0
    /\ all_converged' = FALSE
    /\ pc' = "loop"
    /\ UNCHANGED <<compressedPoly, dkRes, matVars, polyVars, heapVars, vecVars, arg>>

\* the loop condition with the ceiling test off by one
LoopContinues_offbyone(ic, conv) == ic <= MAX_DK_ITERATIONS /\ ~conv

\* the loop condition: iter_count < MAX_DK_ITERATIONS && !all_converged
LoopContinues(ic, conv) == ic < MAX_DK_ITERATIONS /\ ~conv

\* one iteration of the while loop
FactorizePoly_iterate ==
    /\ pc = "loop"
    /\ LoopContinues(iter_count, all_converged)
    /\ iter_count' = iter_count + 1
    /\ nextValues' = update_loop(compressedPoly, currentValues, nextValues, 0)
    /\ all_converged' = converged_loop(currentValues, nextValues', 0,
                                       all_converged)
    /\ currentValues' = nextValues'
    /\ UNCHANGED <<compressedPoly, pc, maxRank, dkRes, matVars, polyVars, heapVars, vecVars, arg>>

\* the factors built without negating the estimates
Factors_noneg(rank, values) ==
    [k \in 1..rank |-> Factor(DInt(1), values[k])]

\* factors.at(i) = {1, -nextValues.at(i)}
Factors(rank, values) ==
    [k \in 1..rank |-> Factor(DInt(1), CNeg(values[k]))]

\* the loop has ended: the factors are built and returned
FactorizePoly_return ==
    /\ pc = "loop"
    /\ ~LoopContinues(iter_count, all_converged)
    /\ dkRes' = Ret(Factors(maxRank, nextValues))
    /\ pc' = "done"
    /\ UNCHANGED <<compressedPoly, maxRank, nextValues, currentValues,
                   iter_count, all_converged, matVars, polyVars, heapVars, vecVars, arg>>

NextDK ==
    \/ FactorizePoly_throw
    \/ FactorizePoly_at_throw
    \/ FactorizePoly_start
    \/ FactorizePoly_iterate
    \/ FactorizePoly_return

SpecDK == InitDK /\ [][NextDK]_vars

\* FactorizePoly runs to its end once called: a single thread that is
\* never suspended
FairSpecDK == SpecDK /\ WF_vars(NextDK)

\* the rank of the input as the caller sees it: length - 1
Rank == Len(compressedPoly) - 1

Returned == pc \in {"done", "thrown"}

\* C7: FactorizePoly raises an invalid-argument error for every coefficient
\* vector of rank < 2, that is, of length 0, 1 or 2.
C7_LowRankThrowsInvalidArgument ==
    (Returned /\ Rank < 2) => dkRes = Throw("invalid_argument")

\* C8: for every coefficient vector of rank >= 2 the loop runs at most
\* MAX_DK_ITERATIONS iterations and the function then returns, whether or
\* not the convergence test ever passes.
C8_LoopTerminates ==
    /\ [](iter_count <= MAX_DK_ITERATIONS)
    /\ [](Rank >= 2 => <>(pc = "done"))

\* a run of rank >= 2 that ended at the ceiling, never having converged
C8_Witness ==
    /\ pc = "done" /\ Rank >= 2
    /\ iter_count = MAX_DK_ITERATIONS /\ ~all_converged
    /\ \A k \in 1..maxRank : IsFinite(nextValues[k].m_real)

\* C9: for every input of rank >= 2 FactorizePoly returns exactly rank
\* factors, factor i being (1, -(final estimate of root i)), whether the loop
\* ended by convergence or by the ceiling.
C9_ReturnsRankFactors ==
    (pc = "done") =>
        /\ Rank >= 2
        /\ ~Threw(dkRes)
        /\ Len(dkRes.val) = Rank
        /\ Len(currentValues) = Rank
        /\ \A k \in 1..Rank :
              /\ dkRes.val[k].first = FP_ONE
              /\ dkRes.val[k].second.m_real = DNeg(currentValues[k].m_real)
              /\ dkRes.val[k].second.m_imagine
                     = DNeg(currentValues[k].m_imagine)

\* a rank-3 run that ended by convergence on estimates that are not 0
C9_Witness ==
    /\ pc = "done" /\ Rank = 3 /\ all_converged
    /\ iter_count < MAX_DK_ITERATIONS
    /\ \E k \in 1..Rank : IsFinite(currentValues[k].m_real)
                            /\ currentValues[k].m_real # 0

\* the magnitude of root estimate k changes by less than MIN_DIFF_CONV_TEST
\* in the step from the unprimed to the primed state
SmallChange(k) ==
    LET d == DSub(absolute(currentValues[k]), absolute(nextValues'[k]))
    IN  IsFinite(d) /\ -MIN_DIFF_CONV_TEST < d /\ d < MIN_DIFF_CONV_TEST

\* an iteration sets all_converged exactly when every root changed by less
\* than the threshold
IterationTestsEveryRoot ==
    FactorizePoly_iterate =>
        (all_converged' <=> \A k \in 1..maxRank : SmallChange(k))

\* after an iteration that did not converge, below the ceiling, the next step
\* is another iteration
NotConvergedIteratesAgain ==
    (pc = "loop" /\ ~all_converged /\ iter_count < MAX_DK_ITERATIONS) =>
        (pc' = "loop" /\ iter_count' = iter_count + 1)

\* C25: the Durand-Kerner loop exits before the iteration ceiling only after
\* an iteration in which every root estimate's magnitude changed by less than
\* MIN_DIFF_CONV_TEST; if in an iteration at least one root's change is not
\* below the threshold and the ceiling has not been reached, another
\* iteration is executed.
C25_ExitOnlyWhenAllConverged ==
    /\ [][IterationTestsEveryRoot]_vars
    /\ [][NotConvergedIteratesAgain]_vars
    /\ [](pc = "done" /\ iter_count < MAX_DK_ITERATIONS =>
             all_converged /\ iter_count >= 1)
    /\ \A n \in 0..(MAX_DK_ITERATIONS - 1) :
          (pc = "loop" /\ ~all_converged /\ iter_count = n)
              ~> (iter_count = n + 1)

\* a run that did not converge in its first iteration, ran on and left the
\* loop below the ceiling
C25_Witness ==
    /\ pc = "done" /\ all_converged
    /\ iter_count >= 3 /\ iter_count < MAX_DK_ITERATIONS
    /\ \A k \in 1..maxRank : IsFinite(nextValues[k].m_real)

\* the orders in which the indices 0..n-1 can be processed
IndexOrders(n) ==
    {o \in [1..n -> 0..(n - 1)] : \A a, b \in 1..n : a # b => o[a] # o[b]}

RECURSIVE UpdateInOrder(_, _, _, _, _)
\* the update loop's body applied to the indices in the order o, from
\* position k on
UpdateInOrder(poly, cur, nxt, o, k) ==
    IF k > Len(o) THEN nxt
    ELSE Strict(update_step(poly, cur, nxt, o[k]), LAMBDA n :
         UpdateInOrder(poly, cur, n, o, k + 1))

\* C26: within one Durand-Kerner iteration every nextValues[i] is computed
\* only from the previous iteration's estimates: writing nextValues[i] changes
\* no value read for nextValues[j], so the result does not depend on the
\* order in which the indices are processed, and currentValues is replaced by
\* nextValues only after all indices are updated.
C26_IterationReadsOnlyCurrentValues ==
    [][FactorizePoly_iterate =>
        /\ \A k \in 1..maxRank :
              nextValues'[k] = NextValue(compressedPoly, currentValues, k - 1)
        /\ \A o \in IndexOrders(maxRank) :
              UpdateInOrder(compressedPoly, currentValues, nextValues, o, 1)
                  = nextValues'
        /\ currentValues' = nextValues']_vars

\* a second or later iteration of a rank-3 input has run and moved the
\* estimates without converging
C26_Witness ==
    /\ pc = "loop" /\ maxRank = 3 /\ iter_count >= 2 /\ ~all_converged
    /\ currentValues = nextValues
    /\ \A k \in 1..maxRank : IsFinite(nextValues[k].m_real)
                                /\ IsFinite(nextValues[k].m_imagine)

\* (|c| / |lead|)^(1 / rank)
RadiusFrom(c, lead, rank) == DRoot(DDiv(absolute(c), absolute(lead)), rank)

\* the coefficient of lowest degree that is not 0, and 0 + 0i when every
\* coefficient is 0
LowestNonzero(poly) ==
    LET nz == {k \in 1..Len(poly) : poly[k] # Complex(0, 0)}
    IN  IF nz = {} THEN Complex(0, 0)
        ELSE poly[CHOOSE k \in nz : \A q \in nz : k <= q]

\* FactorizePoly has placed its initial guesses and has not iterated yet
GuessesPlaced == pc = "loop" /\ iter_count = 0

\* C28 as stated: the radius of the circle of initial guesses is derived from
\* the magnitude of the constant coefficient coeff[0] divided by the magnitude
\* of the leading coefficient coeff[rank], for every input, inputs whose
\* constant coefficient is 0 included.
C28_RadiusFromConstantCoefficient ==
    GuessesPlaced =>
        LET r == RadiusFrom(compressedPoly[1], compressedPoly[maxRank + 1],
                            maxRank)
        IN  /\ Radius(compressedPoly, maxRank) = r
            /\ nextValues = StartCircle(r, maxRank)

\* C28, amended: the radius is derived from the magnitude of the
\* lowest-degree coefficient that is not 0 divided by the magnitude of the
\* leading coefficient; this is coeff[0] exactly when coeff[0] is not 0.
C28_RadiusFromFirstNonzeroCoefficient ==
    GuessesPlaced =>
        LET r == RadiusFrom(LowestNonzero(compressedPoly),
                            compressedPoly[maxRank + 1], maxRank)
        IN  /\ Radius(compressedPoly, maxRank) = r
            /\ nextValues = StartCircle(r, maxRank)
            /\ (compressedPoly[1] # Complex(0, 0) =>
                    LowestNonzero(compressedPoly) = compressedPoly[1])

\* guesses on a circle of radius 1 for a polynomial without constant term
C28_Witness ==
    /\ GuessesPlaced
    /\ compressedPoly[1] = Complex(0, 0)
    /\ compressedPoly[2] # Complex(0, 0)
    /\ Radius(compressedPoly, maxRank) = FP_ONE
    /\ nextValues[1] # Complex(0, 0)

-----------------------------------------------------------------------------
(* The functions of complex numbers and getValCompressedPoly as a state    *)
(* machine: one call is made with the arguments held in arg, its result    *)
(* is left in polyRes.                                                     *)

\* the points a + bi with a, b in -1..1
EvalPoints == {Complex(DInt(re), DInt(im)) : re \in -1..1, im \in -1..1}

\* M_PI on the fixed-point grid
PiFP == RoundDiv(31416 * FP_ONE, 10000)

\* M_PI_2 on the fixed-point grid
HalfPiFP == RoundDiv(15708 * FP_ONE, 10000)

\* atan(q) for the quotients of the components of the points of EvalPoints:
\* -1, 0 and 1
ATan(q) ==
    CASE q = 0 -> 0
      [] q = FP_ONE -> RoundDiv(7854 * FP_ONE, 10000)
      [] q = -FP_ONE -> -RoundDiv(7854 * FP_ONE, 10000)

\* Complex_C_t::argument() of src/src/Complex_C.cpp
argument(c) ==
    IF c.m_real > 0
    THEN ATan(DDiv(c.m_imagine, c.m_real))
    ELSE IF c.m_real < 0 /\ c.m_imagine >= 0
    THEN DAdd(ATan(DDiv(c.m_imagine, c.m_real)), PiFP)
    ELSE IF c.m_real < 0 /\ c.m_imagine < 0
    THEN DSub(ATan(DDiv(c.m_imagine, c.m_real)), PiFP)
    ELSE IF c.m_real = 0 /\ c.m_imagine > 0
    THEN HalfPiFP
    ELSE IF c.m_real = 0 /\ c.m_imagine < 0
    THEN -HalfPiFP
    ELSE NONFINITE

\* argument(com) of src/src/Complex.cpp, the members real and imagine of its
\* Complex_C_t being m_real and m_imagine here.  No branch assigns
\* preRotation when a component is 0: its value is then indeterminate.
argument_Complex_cpp(com, indeterminate) ==
    IF com.m_real = 0 /\ com.m_imagine = 0
    THEN 0
    ELSE LET preRotation ==
                 IF com.m_real > 0 /\ com.m_imagine > 0 THEN 0
                 ELSE IF com.m_real < 0 /\ com.m_imagine > 0 THEN HalfPiFP
                 ELSE IF com.m_real < 0 /\ com.m_imagine < 0 THEN -HalfPiFP
                 ELSE IF com.m_real > 0 /\ com.m_imagine < 0 THEN 0
                 ELSE indeterminate
             \* atan(com.imagine / com.real), the quotient by 0 being an
             \* infinity of the sign of com.imagine
             at == IF com.m_real = 0
                   THEN (IF com.m_imagine > 0 THEN HalfPiFP ELSE -HalfPiFP)
                   ELSE ATan(DDiv(com.m_imagine, com.m_real))
         IN  DAdd(at, preRotation)

\* values an uninitialized double can hold
Indeterminate == {0, FP_ONE, -HalfPiFP, NONFINITE}

\* arguments of argument()
PointArgs == {[kind |-> "point", c |-> c] : c \in EvalPoints}

\* operator/(Complex_C_t, Complex_C_t) of src/src/Complex.cpp, the members
\* real and imagine of its Complex_C_t being m_real and m_imagine here
CDiv_Complex_cpp(l, r) ==
    Strict2(l, r, LAMBDA a, b :
    Strict(DAdd(DMul(b.m_real, b.m_real), DMul(b.m_imagine, b.m_imagine)),
           LAMBDA div :
    Complex(DDiv(DAdd(DAdd(DMul(a.m_real, b.m_real), a.m_imagine),
                      b.m_imagine), div),
            DDiv(DSub(DMul(a.m_imagine, b.m_real),
                      DMul(a.m_real, b.m_imagine)), div))))

\* arguments of operator/: a dividend and a divisor
PairArgs == {[kind |-> "pair", l |-> l, d |-> d] : l \in RootVals, d \in RootVals}

\* arguments of getValCompressedPoly
EvalArgs == {[kind |-> "eval", x |-> x, poly |-> c] : x \in EvalPoints, c \in TermLists}

InitEval ==
    /\ factorList = <<>>
    /\ polyOp = "none"
    /\ polyRes = <<>>
    /\ arg \in EvalArgs \cup PointArgs \cup PairArgs
    /\ MatIdle
    /\ DKIdle
    /\ HeapIdle
    /\ VecIdle

\* a call of a function that returns res
EvalCall(kind, op, res) ==
    /\ polyOp = "none"
    /\ arg.kind = kind
    /\ polyOp' = op
    /\ polyRes' = res
    /\ UNCHANGED <<factorList, matVars, dkVars, heapVars, vecVars, arg>>

CallGetVal == EvalCall("eval", "getVal", getValCompressedPoly(arg.x, arg.poly))

CallArgument == EvalCall("point", "argument", argument(arg.c))

CallArgument_Complex_cpp ==
    \E g \in Indeterminate :
        EvalCall("point", "argument_Complex_cpp", argument_Complex_cpp(arg.c, g))

CallDiv == EvalCall("pair", "div", CDiv(arg.l, arg.d))

CallDiv_Complex_cpp ==
    EvalCall("pair", "div_Complex_cpp", CDiv_Complex_cpp(arg.l, arg.d))

NextEval ==
    \/ CallGetVal
    \/ CallArgument
    \/ CallArgument_Complex_cpp
    \/ CallDiv
    \/ CallDiv_Complex_cpp

SpecEval == InitEval /\ [][NextEval]_vars

RECURSIVE RefEval(_, _, _)
\* the sum of poly[i] * x^i over the first n coefficients, x^i being the
\* product of i factors x and so 1 for i = 0
RefEval(x, poly, n) ==
    IF n = 0 THEN CReal(0)
    ELSE CAdd(RefEval(x, poly, n - 1),
              CMul(poly[n], powReal_loop(x, n - 1, CReal(DInt(1)))))

\* C22: getValCompressedPoly(x, coeffs) returns the sum over i of
\* coeffs[i] * x^i for every point x and every coefficient vector, x = 0
\* included, where the result is coeffs[0].
C22_EvalIsPowerSum ==
    polyOp = "getVal" =>
        /\ polyRes = RefEval(arg.x, arg.poly, Len(arg.poly))
        /\ arg.x = CReal(0) /\ arg.poly # <<>> => polyRes = arg.poly[1]

\* C23: argument() of the complex value 0+0i returns 0, not NaN and not an
\* error, in both rectangular implementations, Complex.cpp and Complex_C.cpp.
C23_ArgumentOfZeroIsZero ==
    polyOp \in {"argument", "argument_Complex_cpp"} /\ arg.c = Complex(0, 0) =>
        polyRes = 0

\* d.re^2 + d.im^2
SquaredMagnitude(d) == DAdd(DMul(d.m_real, d.m_real), DMul(d.m_imagine, d.m_imagine))

\* l * conjugate(d) / |d|^2
RefQuotient(l, d) ==
    Complex(DDiv(DAdd(DMul(l.m_real, d.m_real), DMul(l.m_imagine, d.m_imagine)),
                 SquaredMagnitude(d)),
            DDiv(DSub(DMul(l.m_imagine, d.m_real), DMul(l.m_real, d.m_imagine)),
                 SquaredMagnitude(d)))

\* C24: in both rectangular implementations, Complex.cpp and Complex_C.cpp,
\* l / d returns l * conjugate(d) / |d|^2, that is the real part
\* (l.re*d.re + l.im*d.im) / (d.re^2 + d.im^2) and the imaginary part
\* (l.im*d.re - l.re*d.im) / (d.re^2 + d.im^2), so that a / a = 1 for a # 0.
C24_QuotientByConjugate ==
    polyOp \in {"div", "div_Complex_cpp"} =>
        /\ polyRes = RefQuotient(arg.l, arg.d)
        /\ arg.l = arg.d /\ arg.d # Complex(0, 0) => polyRes = CReal(DInt(1))

-----------------------------------------------------------------------------
(* Ownership of storage: Vector<T> (src/inc/Vector.h) and Matrix<T>        *)
(* (src/inc/Matrix.h) objects and the arrays they allocate.  An object is  *)
(* a record of its members, its pointer member being an address of heap;   *)
(* objects stay in scope for the whole run, so no destructor runs.         *)

\* most elements an array of the store holds
MaxVecLen == 2

\* the element type T of the objects: the two-valued type bool
TVals == BOOLEAN

\* the element lists objects are constructed from
DataVals == UNION {[1..n -> TVals] : n \in 1..MaxVecLen}

\* the shapes of the matrices constructed
Shapes == {sh \in (1..MaxVecLen) \X (1..MaxVecLen) : sh[1] * sh[2] <= MaxVecLen}

\* the address new T[n] returns to the object in slot o.  Addresses are
\* opaque to the program, so the model names the array an object allocates
\* by the object's slot; an object keeps at most one array it allocated, so
\* that address is free whenever the object allocates.
NewAddr(h, o) == {a \in Addrs : a = o /\ ~h[a].live}

\* delete[] of the array at a
DeleteBlock(h, a) == [h EXCEPT ![a] = FreeBlock]

\* what memcpy can copy out of the n elements at p right after new T[n]
\* returned a: the array just allocated holds indeterminate values
MemcpySource(h, a, p, n) ==
    IF p = a THEN [1..n -> TVals] ELSE {h[p].data}

\* Vector(vecData): the initializer-list constructor
Vector_list(o, vecData) ==
    /\ objs[o] = NoObj
    /\ Len(vecData) # 0
    /\ \E a \in NewAddr(heap, o) :
          /\ objs' = [objs EXCEPT ![o] = [kind |-> "Vector", vec_data |-> a,
                                          m_length |-> Len(vecData)]]
          /\ heap' = [heap EXCEPT ![a] = [live |-> TRUE, data |-> vecData]]

\* Matrix(matData) built in place: m_data = new T[m_cols * m_rows], then set()
Matrix_list_new(o, sh, matData) ==
    /\ objs[o] = NoObj
    /\ Len(matData) = sh[1] * sh[2]
    /\ \E a \in NewAddr(heap, o) :
          /\ objs' = [objs EXCEPT ![o] = [kind |-> "Matrix", m_data |-> a,
                                          m_rows |-> sh[1], m_cols |-> sh[2]]]
          /\ heap' = [heap EXCEPT ![a] = [live |-> TRUE, data |-> matData]]

\* Vector(Vector const& vec): the copy constructor
Vector_copy(o, src) ==
    /\ objs[o] = NoObj
    /\ objs[src].kind = "Vector"
    /\ \E a \in NewAddr(heap, o) :
          /\ objs' = [objs EXCEPT ![o] = [kind |-> "Vector", vec_data |-> a,
                                          m_length |-> objs[src].m_length]]
          /\ heap' = [heap EXCEPT ![a] = [live |-> TRUE,
                                          data |-> heap[objs[src].vec_data].data]]

\* Matrix(Matrix const& mat): the copy constructor
Matrix_copy(o, src) ==
    /\ objs[o] = NoObj
    /\ objs[src].kind = "Matrix"
    /\ \E a \in NewAddr(heap, o) :
          /\ objs' = [objs EXCEPT ![o] = [kind |-> "Matrix", m_data |-> a,
                                          m_rows |-> objs[src].m_rows,
                                          m_cols |-> objs[src].m_cols]]
          /\ heap' = [heap EXCEPT ![a] = [live |-> TRUE,
                                          data |-> heap[objs[src].m_data].data]]

\* a = b on Vectors.  Vector declares no operator=, so the assignment is the
\* implicit one: vec_data and m_length are copied member by member, and the
\* array a owned stays allocated.
Vector_assign(o, src) ==
    /\ objs[o].kind = "Vector"
    /\ objs[src].kind = "Vector"
    /\ objs' = [objs EXCEPT ![o] = objs[src]]
    /\ UNCHANGED heap

\* Matrix::operator=(Matrix const& mat): the members, delete[] m_data,
\* m_data = new T[m_cols * m_rows], memcpy from mat.get_data().  With mat
\* the object itself get_data() is the array just allocated.
Matrix_assign(o, src) ==
    /\ objs[o].kind = "Matrix"
    /\ objs[src].kind = "Matrix"
    /\ \E a \in NewAddr(DeleteBlock(heap, objs[o].m_data), o) :
          /\ objs' = [objs EXCEPT ![o] = [kind |-> "Matrix", m_data |-> a,
                                          m_rows |-> objs[src].m_rows,
                                          m_cols |-> objs[src].m_cols]]
          /\ \E d \in MemcpySource(heap, a, objs'[src].m_data,
                                     objs[src].m_rows * objs[src].m_cols) :
                heap' = [DeleteBlock(heap, objs[o].m_data)
                             EXCEPT ![a] = [live |-> TRUE, data |-> d]]

\* Vector::set(index, val); out of bounds it throws and writes nothing
Vector_set(o, index, val) ==
    /\ objs[o].kind = "Vector"
    /\ heap' = IF ~(index < objs[o].m_length) THEN heap
               ELSE [heap EXCEPT ![objs[o].vec_data].data[index + 1] = val]
    /\ UNCHANGED objs

\* Matrix::set(row, col, val); out of bounds it throws and writes nothing
Matrix_set(o, row, col, val) ==
    /\ objs[o].kind = "Matrix"
    /\ heap' = Strict(trans_coord(objs[o], row, col), LAMBDA idx :
               IF Threw(idx) THEN heap
               ELSE [heap EXCEPT ![objs[o].m_data].data[idx.val] = val])
    /\ UNCHANGED objs

InitHeap ==
    /\ HeapIdle
    /\ VecIdle
    /\ arg = NoArg
    /\ MatIdle
    /\ PolyIdle
    /\ DKIdle

Construct ==
    /\ \E o \in Slots :
          \/ \E d \in DataVals : Vector_list(o, d)
          \/ \E sh \in Shapes, d \in DataVals : Matrix_list_new(o, sh, d)
    /\ UNCHANGED <<matVars, polyVars, dkVars, vecVars, arg>>

CopyConstruct ==
    /\ \E o, src \in Slots : Vector_copy(o, src) \/ Matrix_copy(o, src)
    /\ UNCHANGED <<matVars, polyVars, dkVars, vecVars, arg>>

AssignVector ==
    /\ \E o, src \in Slots : Vector_assign(o, src)
    /\ UNCHANGED <<matVars, polyVars, dkVars, vecVars, arg>>

AssignMatrix ==
    /\ \E o, src \in Slots : Matrix_assign(o, src)
    /\ UNCHANGED <<matVars, polyVars, dkVars, vecVars, arg>>

SetElement ==
    /\ \E o \in Slots, val \in TVals :
          \/ \E index \in 0..MaxVecLen : Vector_set(o, index, val)
          \/ \E row, col \in 0..MaxVecLen : Matrix_set(o, row, col, val)
    /\ UNCHANGED <<matVars, polyVars, dkVars, vecVars, arg>>

NextHeap ==
    \/ Construct
    \/ CopyConstruct
    \/ AssignVector
    \/ AssignMatrix
    \/ SetElement

SpecHeap == InitHeap /\ [][NextHeap]_vars

\* the array an object in scope points at
Storage(o) ==
    IF objs[o].kind = "Vector" THEN objs[o].vec_data ELSE objs[o].m_data

\* C10: after any sequence of construction, copy-construction and assignment
\* of Vector and Matrix objects no two distinct objects in scope share
\* backing storage, so a set() on one never changes what get() returns on
\* another.
C10_NoSharedStorage ==
    \A o1, o2 \in Slots :
        (o1 # o2 /\ objs[o1] # NoObj /\ objs[o2] # NoObj)
            => Storage(o1) # Storage(o2)

\* the elements of the Matrix in slot o, in the state given by ob and h
Contents(ob, h, o) == h[ob[o].m_data].data

\* the step o = src leaves o with the dimensions and the contents src had
\* and leaves src as it was
AssignedFrom(o, src) ==
    /\ objs'[o].m_rows = objs[src].m_rows
    /\ objs'[o].m_cols = objs[src].m_cols
    /\ Contents(objs', heap', o) = Contents(objs, heap, src)
    /\ objs'[src].m_rows = objs[src].m_rows
    /\ objs'[src].m_cols = objs[src].m_cols
    /\ Contents(objs', heap', src) = Contents(objs, heap, src)

\* C29: Matrix assignment A = B leaves A with B's dimensions and element-wise
\* equal to the contents B had before the assignment, and leaves B unchanged,
\* for every A and B, also when A and B are the same object and when their
\* dimensions differ.
C29_AssignmentCopiesSource ==
    [][\A o, src \in Slots : Matrix_assign(o, src) => AssignedFrom(o, src)]_vars

\* the same for two distinct objects only
AssignmentBetweenDistinctObjects ==
    [][\A o, src \in Slots :
          (o # src /\ Matrix_assign(o, src)) => AssignedFrom(o, src)]_vars

=============================================================================
